---- MODULE Spec2Model ----
(***************************************************************************)
(* Dialogue orchestration engine of the Fitbit assistant:                  *)
(*   - the per-turn state machine of graph/graph.py (Spec),                *)
(*   - the fast/slow intent classification chain of graph/chains/intent.py *)
(*     (SpecChain),                                                        *)
(*   - the bounded-retry planner of graph/process/nodes/planner.py         *)
(*     (SpecPlanner).                                                      *)
(* Confidences are counted in twentieths: 0.6 = 12, 0.7 = 14, 0.75 = 15,   *)
(* 0.9 = 18, 1.0 = 20.                                                     *)
(***************************************************************************)
EXTENDS Integers, Sequences, FiniteSets, TLC

\* ------------------------------------------------------------------------
\* Bounds of the model
\* ------------------------------------------------------------------------
MaxTurns == 2

MaxPlannerAttempts == 2

\* longest list of suggested sources handed to the IntentMetadata constructor
MaxSources == 2

\* largest whole-number confidence handed to the ProcessPlan constructor
MaxPercent == 120

\* largest turn_count of a ConversationState handed to intent_node on its own
MaxTurnCount == 2

\* longest message list returned by the execution agent
MaxAgentMessages == 2

\* longest history handed to a node that is run on its own
MaxHistory == 3

\* ------------------------------------------------------------------------
\* Program constants
\* ------------------------------------------------------------------------
LOW_CONF_OVERRIDE == 12

ROUTER_MIN_CONFIDENCE == 15

IntentLabel ==
    {"METRIC_RETRIEVAL", "CORRELATION_ANALYSIS", "COACHING_REQUEST",
     "BENCHMARK_EVALUATION", "DATA_AVAILABILITY", "OUT_OF_SCOPE", "GREETING",
     "UNCLEAR"}

DataSource == {"USER_METRICS", "USER_PROFILE", "KNOWLEDGE_BASE", "CALENDAR", "NONE"}

ResponseType ==
    {"DATA_LOOKUP", "TREND_ANALYSIS", "ACTIONABLE_ADVICE", "BENCHMARK_INFO",
     "HELP_MESSAGE", "CLARIFICATION"}

SOURCE_ORDER == <<"USER_METRICS", "USER_PROFILE", "KNOWLEDGE_BASE", "CALENDAR", "NONE">>

INTENT_MIN_SOURCES ==
    [i \in IntentLabel |->
        CASE i = "METRIC_RETRIEVAL"     -> {"USER_METRICS"}
          [] i = "CORRELATION_ANALYSIS" -> {"USER_METRICS", "USER_PROFILE"}
          [] i = "COACHING_REQUEST"     -> {"USER_METRICS", "KNOWLEDGE_BASE"}
          [] i = "BENCHMARK_EVALUATION" -> {"USER_METRICS", "KNOWLEDGE_BASE"}
          [] i = "DATA_AVAILABILITY"    -> {"USER_PROFILE"}
          [] i = "OUT_OF_SCOPE"         -> {"NONE"}
          [] i = "GREETING"             -> {"NONE"}
          [] i = "UNCLEAR"              -> {"CLARIFICATION"}]

\* The table has no entry for UNCLEAR.
INTENT_RESPONSE_TYPE ==
    [i \in IntentLabel \ {"UNCLEAR"} |->
        CASE i = "METRIC_RETRIEVAL"     -> "DATA_LOOKUP"
          [] i = "CORRELATION_ANALYSIS" -> "TREND_ANALYSIS"
          [] i = "COACHING_REQUEST"     -> "ACTIONABLE_ADVICE"
          [] i = "BENCHMARK_EVALUATION" -> "BENCHMARK_INFO"
          [] i = "DATA_AVAILABILITY"    -> "DATA_LOOKUP"
          [] i = "OUT_OF_SCOPE"         -> "HELP_MESSAGE"
          [] i = "GREETING"             -> "HELP_MESSAGE"]

\* dict.get(key, default)
Get(table, key, default) == IF key \in DOMAIN table THEN table[key] ELSE default

\* ------------------------------------------------------------------------
\* Values drawn for the outputs of the language-inference service
\* ------------------------------------------------------------------------
LLMIntents == {"GREETING", "OUT_OF_SCOPE", "DATA_AVAILABILITY", "METRIC_RETRIEVAL"}

ConfLevels == {11, 14, 15, 18}

LLMResponseTypes == {"DATA_LOOKUP"}

LLMTopics == {<<"general", {}>>, <<"sleep", {"steps"}>>}

ThresholdLevels == {14, 18}

\* ------------------------------------------------------------------------
\* State
\* ------------------------------------------------------------------------
VARIABLES
    \* node configuration, fixed at construction
    slow_llm, slow_fallback_enabled, confidence_threshold, suggestor_enabled,
    \* persisted AssistantState of the thread
    messages, conversation_state, intent_metadata, needs_clarification,
    suggestion_included,
    \* position of the running turn
    node, visited, calls, nudged, turns,
    \* the thread's state as the last turn that ran to its end left it
    last_completed

cfgVars == <<slow_llm, slow_fallback_enabled, confidence_threshold, suggestor_enabled>>

threadVars ==
    <<messages, conversation_state, intent_metadata, needs_clarification,
      suggestion_included>>

turnVars == <<node, visited, calls, nudged, turns, last_completed>>

vars == <<cfgVars, threadVars, turnVars>>

\* one classification by the chain, run on its own
VARIABLES chain_pc, chain_input, chain_calls, chain_result

chainVars == <<chain_pc, chain_input, chain_calls, chain_result>>

\* one run of planner_node
VARIABLES max_attempts, attempts, planner_pc, last_plan, last_violations,
          planner_calls, planner_delta

plannerVars == <<max_attempts, attempts, planner_pc, last_plan, last_violations,
                 planner_calls, planner_delta>>

\* one call of a single function or node on its own: the function called,
\* the position of the call, its arguments and what it returned
VARIABLES call_fn, call_pc, call_args, call_ret

callVars == <<call_fn, call_pc, call_args, call_ret>>

\* the chat sessions of the app: the checkpointer's state per thread id, the
\* chat history each session shows, what each session's user was shown last,
\* the session that ran the last turn and the number of turns so far
VARIABLES checkpoints, ui_messages, shown, last_thread, app_turns

appVars == <<checkpoints, ui_messages, shown, last_thread, app_turns>>

\* ------------------------------------------------------------------------
\* IntentMetadata (graph/schemas.py)
\* ------------------------------------------------------------------------
\* The value of state["intent_metadata"] when no metadata was produced.
NoMeta ==
    [intent |-> "None", confidence |-> 0, suggested_sources |-> <<>>,
     response_type |-> "None", needs_clarification |-> FALSE,
     current_topic |-> "None", mentioned_metrics |-> {}]

SeqToSet(s) == {s[i] : i \in 1..Len(s)}

\* enforce_policy step 1: the sources given, extended with the required
\* sources that are missing.  Only the set of the extended list is read
\* afterwards.
enforce_min_sources(intent, suggested_sources) ==
    LET required == INTENT_MIN_SOURCES[intent]
        got_set  == SeqToSet(suggested_sources)
        missing  == {s \in required : s \notin got_set}
    IN  got_set \cup missing

\* enforce_policy step 2: strict clean-up for non-data intents.
strict_cleanup_GreetingOnly(intent, got) ==
    IF intent = "GREETING" THEN {"NONE"} ELSE got

strict_cleanup(intent, got) ==
    IF intent \in {"GREETING", "OUT_OF_SCOPE"} THEN {"NONE"} ELSE got

\* enforce_policy step 3: [s for s in SOURCE_ORDER if s in got_set]
sort_and_deduplicate(got_set) ==
    LET Kept(s) == s \in got_set
    IN  SelectSeq(SOURCE_ORDER, Kept)

\* enforce_policy step 4: response type consistency.
response_type_consistency_KeepsGiven(intent, response_type, needs_clar) ==
    LET expected == Get(INTENT_RESPONSE_TYPE, intent, "DATA_LOOKUP")
    IN  IF ~needs_clar
        THEN IF response_type = "CLARIFICATION"
             THEN [response_type |-> response_type, needs_clarification |-> TRUE]
             ELSE [response_type |-> response_type, needs_clarification |-> needs_clar]
        ELSE [response_type |-> response_type, needs_clarification |-> needs_clar]

response_type_consistency(intent, response_type, needs_clar) ==
    LET expected == Get(INTENT_RESPONSE_TYPE, intent, "DATA_LOOKUP")
    IN  IF ~needs_clar
        THEN IF response_type = "CLARIFICATION"
             THEN [response_type |-> response_type, needs_clarification |-> TRUE]
             ELSE [response_type |-> expected, needs_clarification |-> needs_clar]
        ELSE [response_type |-> response_type, needs_clarification |-> needs_clar]

\* enforce_policy step 5: low confidence override.
low_confidence_override_Flipped(confidence, needs_clar) ==
    IF confidence > LOW_CONF_OVERRIDE THEN TRUE ELSE needs_clar

low_confidence_override(confidence, needs_clar) ==
    IF confidence < LOW_CONF_OVERRIDE THEN TRUE ELSE needs_clar

\* IntentMetadata(...) with valid fields, followed by the model validator
\* enforce_policy.
enforce_policy_SkipsConsistency(intent, confidence, sources, response_type, needs_clar, topic, metrics) ==
    LET got   == strict_cleanup(intent, enforce_min_sources(intent, sources))
    IN  [intent |-> intent, confidence |-> confidence,
         suggested_sources |-> sort_and_deduplicate(got),
         response_type |-> response_type,
         needs_clarification |-> low_confidence_override(confidence, needs_clar),
         current_topic |-> topic, mentioned_metrics |-> metrics]

enforce_policy(intent, confidence, sources, response_type, needs_clar, topic, metrics) ==
    LET got   == strict_cleanup(intent, enforce_min_sources(intent, sources))
        step4 == response_type_consistency(intent, response_type, needs_clar)
    IN  [intent |-> intent, confidence |-> confidence,
         suggested_sources |-> sort_and_deduplicate(got),
         response_type |-> step4.response_type,
         needs_clarification |->
             low_confidence_override(confidence, step4.needs_clarification),
         current_topic |-> topic, mentioned_metrics |-> metrics]

\* What a classifier call can produce: a constructed IntentMetadata, or a
\* failure to produce structured output (the call raises).
ParseFailure == [ok |-> FALSE, md |-> NoMeta]

ClassifierOutcomes ==
    { [ok |-> TRUE,
       md |-> enforce_policy(i, c, <<>>, rt, nc, t[1], t[2])] :
         i \in LLMIntents, c \in ConfLevels, rt \in LLMResponseTypes,
         nc \in BOOLEAN, t \in LLMTopics }
    \cup {ParseFailure}

\* ------------------------------------------------------------------------
\* graph/chains/intent.py
\* ------------------------------------------------------------------------
\* The escalation test of classify_user_intent (lines 45-51).
ShouldEscalateStrictBug(enabled, slow, threshold, result) ==
    /\ enabled
    /\ slow
    /\ result.confidence <= threshold
    /\ result.intent \notin {"GREETING", "OUT_OF_SCOPE"}

ShouldEscalate(enabled, slow, threshold, result) ==
    /\ enabled
    /\ slow
    /\ result.confidence < threshold
    /\ result.intent \notin {"GREETING", "OUT_OF_SCOPE"}

\* The adoption test (line 56).
AdoptSlowOnlyIfBetter(result, result2) == result2.confidence > result.confidence

AdoptSlow(result, result2) == result2.confidence >= result.confidence

\* classify_user_intent on input msgs, given what the fast call and (if it
\* is made) the slow call produce.  Returns the log of the calls made, in
\* order, and the value returned; raised = TRUE when a call raised and the
\* exception left the function.
classify_user_intent(enabled, slow, threshold, msgs, fastOut, slowOut) ==
    LET fastCall == [model |-> "fast", input |-> msgs, out |-> fastOut]
        slowCall == [model |-> "slow", input |-> msgs, out |-> slowOut]
    IN  IF ~fastOut.ok
        THEN [calls |-> <<fastCall>>, raised |-> TRUE, result |-> NoMeta]
        ELSE IF ShouldEscalate(enabled, slow, threshold, fastOut.md)
        THEN IF ~slowOut.ok
             THEN [calls |-> <<fastCall, slowCall>>, raised |-> TRUE,
                   result |-> NoMeta]
             ELSE [calls |-> <<fastCall, slowCall>>, raised |-> FALSE,
                   result |-> IF AdoptSlow(fastOut.md, slowOut.md)
                              THEN slowOut.md ELSE fastOut.md]
        ELSE [calls |-> <<fastCall>>, raised |-> FALSE, result |-> fastOut.md]

\* The outcomes to draw for the slow call: any outcome when the call is made,
\* a single placeholder when it is not (its value is then never read).
SlowOutcomes(enabled, slow, threshold, fastOut) ==
    IF fastOut.ok /\ ShouldEscalate(enabled, slow, threshold, fastOut.md)
    THEN ClassifierOutcomes ELSE {ParseFailure}

\* ------------------------------------------------------------------------
\* graph/graph.py : routers and edges of build_graph
\* ------------------------------------------------------------------------
intent_router_LabelFirst(metadata) ==
    IF metadata = NoMeta THEN "clarification"
    ELSE IF metadata.intent \in {"GREETING", "OUT_OF_SCOPE"} THEN "static_respond"
    ELSE IF metadata.needs_clarification
            \/ metadata.confidence < ROUTER_MIN_CONFIDENCE THEN "clarification"
    ELSE IF metadata.intent = "DATA_AVAILABILITY" THEN "data_availability"
    ELSE "process"

intent_router(metadata) ==
    IF metadata = NoMeta THEN "clarification"
    ELSE IF metadata.needs_clarification
            \/ metadata.confidence < ROUTER_MIN_CONFIDENCE THEN "clarification"
    ELSE IF metadata.intent \in {"GREETING", "OUT_OF_SCOPE"} THEN "static_respond"
    ELSE IF metadata.intent = "DATA_AVAILABILITY" THEN "data_availability"
    ELSE "process"

after_process_router_IgnoresClarification(needs_clar, enabled) ==
    IF enabled THEN "suggest" ELSE "end"

after_process_router(needs_clar, enabled) ==
    IF needs_clar THEN "clarification"
    ELSE IF enabled THEN "suggest"
    ELSE "end"

\* add_conditional_edges("INTENT", intent_router, {...})
IntentEdges ==
    [clarification |-> "CLARIFICATION", static_respond |-> "STATIC_RESPOND",
     data_availability |-> "DATA_AVAILABILITY", process |-> "PROCESS"]

\* add_conditional_edges("PROCESS", after_process_router, {...}), both wirings
ProcessEdges(enabled) ==
    IF enabled
    THEN [clarification |-> "CLARIFICATION", suggest |-> "SUGGESTOR", end |-> "END"]
    ELSE [clarification |-> "CLARIFICATION", suggest |-> "END", end |-> "END"]

\* add_edge(n, END)
PlainEdges(enabled) ==
    {<<"CLARIFICATION", "END">>, <<"STATIC_RESPOND", "END">>}
    \cup (IF enabled THEN {<<"SUGGESTOR", "END">>} ELSE {})

\* add_node(...)
GraphNodes(enabled) ==
    {"INTENT", "CLARIFICATION", "STATIC_RESPOND", "PROCESS", "DATA_AVAILABILITY"}
    \cup (IF enabled THEN {"SUGGESTOR"} ELSE {})

Range(f) == {f[x] : x \in DOMAIN f}

\* Every target a node has an edge to, conditional or plain.
EdgeTargets(n, enabled) ==
    IF n = "INTENT" THEN Range(IntentEdges)
    ELSE IF n = "PROCESS" THEN Range(ProcessEdges(enabled))
    ELSE {e[2] : e \in {d \in PlainEdges(enabled) : d[1] = n}}

\* The node that runs after a node with only plain edges; a node without an
\* outgoing edge schedules nothing and the run stops there.
AfterPlainNode(n, enabled) ==
    IF EdgeTargets(n, enabled) = {} THEN "DEAD_END"
    ELSE CHOOSE t \in EdgeTargets(n, enabled) : TRUE

\* ------------------------------------------------------------------------
\* graph/memory.py and graph/state.py
\* ------------------------------------------------------------------------
HumanMessage(text) == [role |-> "human", content |-> text]

AIMessage(text) == [role |-> "ai", content |-> text]

\* trim_messages(max_tokens=max_messages, strategy="last", token_counter=len,
\* include_system=True, allow_partial=False, start_on="human"): a leading
\* system message is set aside and counted against the bound; of the other
\* messages the last ones that fit the rest of the bound are taken, and cut
\* further so that the first one kept is a human message; the system message
\* is put back in front.
LeadingSystem(msgs) == IF msgs = <<>> THEN FALSE ELSE msgs[1].role = "system"

trim_conversation_history_SystemNotCounted(msgs, max_messages) ==
    LET rest == IF LeadingSystem(msgs) THEN Tail(msgs) ELSE msgs
        k    == IF Len(rest) < max_messages THEN Len(rest) ELSE max_messages
        tail == SubSeq(rest, Len(rest) - k + 1, Len(rest))
        hs   == {i \in 1..Len(tail) : tail[i].role = "human"}
        kept == IF hs = {} THEN <<>>
                ELSE SubSeq(tail, CHOOSE i \in hs : \A j \in hs : i <= j, Len(tail))
    IN  IF LeadingSystem(msgs) THEN <<msgs[1]>> \o kept ELSE kept

trim_conversation_history(msgs, max_messages) ==
    LET rest      == IF LeadingSystem(msgs) THEN Tail(msgs) ELSE msgs
        remaining == IF ~LeadingSystem(msgs) THEN max_messages
                     ELSE IF max_messages >= 1 THEN max_messages - 1 ELSE 0
        k    == IF Len(rest) < remaining THEN Len(rest) ELSE remaining
        tail == SubSeq(rest, Len(rest) - k + 1, Len(rest))
        hs   == {i \in 1..Len(tail) : tail[i].role = "human"}
        kept == IF hs = {} THEN <<>>
                ELSE SubSeq(tail, CHOOSE i \in hs : \A j \in hs : i <= j, Len(tail))
    IN  IF LeadingSystem(msgs) THEN <<msgs[1]>> \o kept ELSE kept

\* ConversationState() with its field defaults; also stands for a thread
\* whose conversation_state is still unset (intent_node reads
\* state.get("conversation_state") or ConversationState()).
ConversationState0 ==
    [current_topic |-> "None", mentioned_metrics |-> {}, turn_count |-> 0,
     prior_intent |-> "None", user_explicitly_asked |-> "None"]

INTENT_MAX_HISTORY_LIMIT == 10

\* IntentNodeConfig.confidence_threshold, the default (0.70)
CONFIDENCE_THRESHOLD == 14

MIN_SUGGESTIVENESS == 3

\* ------------------------------------------------------------------------
\* graph/nodes/intent.py
\* ------------------------------------------------------------------------
\* The ConversationState written by intent_node after a classification.
updated_conv_state(conv, intent_result, user_text) ==
    [current_topic |->
        IF intent_result.current_topic \notin {"None", "", "general"}
        THEN intent_result.current_topic ELSE conv.current_topic,
     mentioned_metrics |-> conv.mentioned_metrics \cup intent_result.mentioned_metrics,
     turn_count |-> conv.turn_count + 1,
     prior_intent |-> intent_result.intent,
     user_explicitly_asked |-> user_text]

\* The calls of one classification, without the values they produced.
CallNames(cs) == [i \in 1..Len(cs) |-> [model |-> cs[i].model, ok |-> cs[i].out.ok]]

\* ------------------------------------------------------------------------
\* The turn: one run of the compiled graph on a thread
\* ------------------------------------------------------------------------
TurnOver == node \in {"IDLE", "END", "DEAD_END", "ABORTED"}

Enter(n) ==
    /\ node' = n
    /\ visited' = IF n \in GraphNodes(suggestor_enabled)
                  THEN Append(visited, n) ELSE visited

\* The checkpointer saves the state after every step of a run; a run that
\* stops without an error has completed the turn, and the state it leaves
\* is recorded as the state of the last completed turn: its history, and
\* the turn_count of its ConversationState, which every write of a
\* ConversationState increases.
Commit ==
    last_completed' =
        IF node' \in {"END", "DEAD_END"}
        THEN [messages |-> messages', turn_count |-> conversation_state'.turn_count]
        ELSE last_completed

\* graph.stream(inputs, config) : the input messages are merged into the
\* thread's history by add_messages and the run starts at the entry point;
\* the other keys of the state are the ones the checkpointer holds for the
\* thread.
StartTurn_FreshConversationState ==
    /\ TurnOver
    /\ turns < MaxTurns
    /\ \E input \in {<<>>, <<HumanMessage("question")>>} :
          messages' = messages \o input
    /\ conversation_state' = ConversationState0
    /\ node' = "INTENT"
    /\ visited' = <<"INTENT">>
    /\ calls' = <<>>
    /\ nudged' = FALSE
    /\ turns' = turns + 1
    /\ UNCHANGED <<chainVars, plannerVars, callVars, appVars, cfgVars, intent_metadata,
                   needs_clarification, suggestion_included>>
    /\ Commit

StartTurn ==
    /\ TurnOver
    /\ turns < MaxTurns
    /\ \E input \in {<<>>, <<HumanMessage("question")>>} :
          messages' = messages \o input
    /\ node' = "INTENT"
    /\ visited' = <<"INTENT">>
    /\ calls' = <<>>
    /\ nudged' = FALSE
    /\ turns' = turns + 1
    /\ UNCHANGED <<chainVars, plannerVars, callVars, appVars, cfgVars, conversation_state, intent_metadata,
                   needs_clarification, suggestion_included>>
    /\ Commit

\* intent_node returns {} : no message to classify.
IntentNodeNoMessages ==
    /\ node = "INTENT"
    /\ messages = <<>>
    /\ Enter(IntentEdges[intent_router(intent_metadata)])
    /\ UNCHANGED <<chainVars, plannerVars, callVars, appVars, cfgVars, threadVars, calls, nudged, turns>>
    /\ Commit

\* intent_node : the classification returned a value.
IntentNodeClassified ==
    /\ node = "INTENT"
    /\ messages # <<>>
    /\ \E fastOut \in ClassifierOutcomes :
       \E slowOut \in SlowOutcomes(slow_fallback_enabled, slow_llm,
                                   confidence_threshold, fastOut) :
          LET trimmed == trim_conversation_history(messages, INTENT_MAX_HISTORY_LIMIT)
              r == classify_user_intent(slow_fallback_enabled, slow_llm,
                                        confidence_threshold, trimmed,
                                        fastOut, slowOut)
          IN  /\ ~r.raised
              /\ calls' = CallNames(r.calls)
              /\ intent_metadata' = r.result
              /\ conversation_state' =
                    updated_conv_state(conversation_state, r.result,
                                       messages[Len(messages)].content)
              /\ Enter(IntentEdges[intent_router(r.result)])
    /\ UNCHANGED <<chainVars, plannerVars, callVars, appVars, cfgVars, messages, needs_clarification, suggestion_included,
                   nudged, turns>>
    /\ Commit

\* intent_node : the fast call raised, or the slow call was made and raised;
\* the exception leaves the node and the run, and the node's step writes
\* nothing.
IntentNodeRaises_SilentDefault ==
    /\ node = "INTENT"
    /\ messages # <<>>
    /\ \E fastOut \in ClassifierOutcomes :
          LET trimmed == trim_conversation_history(messages, INTENT_MAX_HISTORY_LIMIT)
              r == classify_user_intent(slow_fallback_enabled, slow_llm,
                                        confidence_threshold, trimmed,
                                        fastOut, ParseFailure)
              dflt == enforce_policy("UNCLEAR", 0, <<>>, "CLARIFICATION", TRUE,
                                    "general", {})
          IN  /\ r.raised
              /\ calls' = CallNames(r.calls)
              /\ intent_metadata' = dflt
              /\ conversation_state' =
                    updated_conv_state(conversation_state, dflt,
                                       messages[Len(messages)].content)
              /\ Enter(IntentEdges[intent_router(dflt)])
    /\ UNCHANGED <<chainVars, plannerVars, callVars, appVars, cfgVars, messages, needs_clarification, suggestion_included,
                   nudged, turns>>
    /\ Commit

IntentNodeRaises ==
    /\ node = "INTENT"
    /\ messages # <<>>
    /\ \E fastOut \in ClassifierOutcomes :
          LET trimmed == trim_conversation_history(messages, INTENT_MAX_HISTORY_LIMIT)
              r == classify_user_intent(slow_fallback_enabled, slow_llm,
                                        confidence_threshold, trimmed,
                                        fastOut, ParseFailure)
          IN  /\ r.raised
              /\ calls' = CallNames(r.calls)
    /\ node' = "ABORTED"
    /\ UNCHANGED <<chainVars, plannerVars, callVars, appVars, cfgVars, threadVars, visited, nudged, turns>>
    /\ Commit

\* request_clarification_node : returns a response; its only edge is to END.
ClarificationNode ==
    /\ node = "CLARIFICATION"
    /\ \/ Enter(AfterPlainNode("CLARIFICATION", suggestor_enabled))
       \/ messages # <<>> /\ node' = "ABORTED" /\ UNCHANGED visited
    /\ UNCHANGED <<chainVars, plannerVars, callVars, appVars, cfgVars, threadVars, calls, nudged, turns>>
    /\ Commit

\* generate_static_response : canned text; its only edge is to END.
StaticRespondNode ==
    /\ node = "STATIC_RESPOND"
    /\ Enter(AfterPlainNode("STATIC_RESPOND", suggestor_enabled))
    /\ UNCHANGED <<chainVars, plannerVars, callVars, appVars, cfgVars, threadVars, calls, nudged, turns>>
    /\ Commit

\* data_availability_node : returns a response; build_graph adds no edge
\* out of DATA_AVAILABILITY.
DataAvailabilityNode ==
    /\ node = "DATA_AVAILABILITY"
    /\ \/ Enter(AfterPlainNode("DATA_AVAILABILITY", suggestor_enabled))
       \/ messages # <<>> /\ node' = "ABORTED" /\ UNCHANGED visited
    /\ UNCHANGED <<chainVars, plannerVars, callVars, appVars, cfgVars, threadVars, calls, nudged, turns>>
    /\ Commit

\* process_node : runs the execution agent and reduces its output to an
\* ExecutionResponse whose needs_clarification goes into the state.
ProcessNode ==
    /\ node = "PROCESS"
    /\ \/ /\ messages = <<>>
          /\ Enter(ProcessEdges(suggestor_enabled)[
                     after_process_router(needs_clarification, suggestor_enabled)])
          /\ UNCHANGED <<messages, needs_clarification>>
       \/ /\ messages # <<>>
          /\ \E exec_needs_clar \in BOOLEAN :
                /\ messages' = Append(messages, AIMessage("answer"))
                /\ needs_clarification' = exec_needs_clar
                /\ Enter(ProcessEdges(suggestor_enabled)[
                           after_process_router(exec_needs_clar, suggestor_enabled)])
       \/ /\ messages # <<>>
          /\ node' = "ABORTED"
          /\ UNCHANGED <<messages, needs_clarification, visited>>
    /\ UNCHANGED <<chainVars, plannerVars, callVars, appVars, cfgVars, conversation_state, intent_metadata,
                   suggestion_included, calls, nudged, turns>>
    /\ Commit

\* A user_profile: absent, a UserProfile object or a mapping; with or
\* without coaching preferences; suggestiveness in tenths (for a mapping,
\* set = FALSE when the key is missing).
NoProfile == [shape |-> "none", has_prefs |-> FALSE, set |-> FALSE, suggestiveness |-> 0]

ProfileOf(shape, suggestiveness) ==
    [shape |-> shape, has_prefs |-> TRUE, set |-> TRUE, suggestiveness |-> suggestiveness]

SUGGESTIVENESS_DEFAULT == 5

\* _safe_float(x, default)
_safe_float(is_set, x, default) == IF ~is_set THEN default ELSE x

\* _extract_coaching_preferences(user_profile), the suggestiveness: for an
\* object float(getattr(prefs, "suggestiveness", 0.5) or 0.5), for a mapping
\* _safe_float(prefs.get("suggestiveness"), 0.5).
_extract_coaching_preferences(user_profile) ==
    IF user_profile.shape = "object"
    THEN IF user_profile.has_prefs
         THEN IF ~user_profile.set \/ user_profile.suggestiveness = 0
              THEN SUGGESTIVENESS_DEFAULT
              ELSE user_profile.suggestiveness
         ELSE SUGGESTIVENESS_DEFAULT
    ELSE IF user_profile.shape = "mapping"
    THEN IF user_profile.has_prefs
         THEN _safe_float(user_profile.set, user_profile.suggestiveness,
                          SUGGESTIVENESS_DEFAULT)
         ELSE SUGGESTIVENESS_DEFAULT
    ELSE SUGGESTIVENESS_DEFAULT

\* The gates of suggestor_node (lines 243-265), in order.
suggestor_skips(state) ==
    IF state.needs_clarification THEN TRUE
    ELSE IF state.user_profile.shape = "none" \/ state.messages = <<>> THEN TRUE
    ELSE IF state.messages[Len(state.messages)].role # "ai" THEN TRUE
    ELSE _extract_coaching_preferences(state.user_profile) < MIN_SUGGESTIVENESS

\* The profiles a turn is run with.
UserProfiles == {NoProfile, ProfileOf("object", 2), ProfileOf("object", 3)}

\* suggestor_node : the gates, then the coaching call; a nudge is a new
\* assistant message that add_messages merges into the history.
SuggestorNode ==
    /\ node = "SUGGESTOR"
    /\ \E user_profile \in UserProfiles,
          suggestion \in {"nudge", "opt_out", "raise"} :
          IF \/ suggestor_skips([needs_clarification |-> needs_clarification,
                                 user_profile |-> user_profile,
                                 messages |-> messages])
             \/ suggestion # "nudge"
          THEN UNCHANGED <<messages, suggestion_included, nudged>>
          ELSE /\ messages' = Append(messages, AIMessage("answer+nudge"))
               /\ suggestion_included' = TRUE
               /\ nudged' = TRUE
    /\ Enter(AfterPlainNode("SUGGESTOR", suggestor_enabled))
    /\ UNCHANGED <<chainVars, plannerVars, callVars, appVars, cfgVars, conversation_state, intent_metadata,
                   needs_clarification, calls, turns>>
    /\ Commit

\* ------------------------------------------------------------------------
\* One classification by the chain of build_intent_chain, on its own
\* ------------------------------------------------------------------------
ChainInputs == {<<HumanMessage("question")>>,
                <<HumanMessage("question"), AIMessage("answer"), HumanMessage("question")>>}

\* classifier_chain.invoke({"messages": ...})
ChainClassify ==
    /\ chain_pc = "ready"
    /\ \E fastOut \in ClassifierOutcomes :
       \E slowOut \in SlowOutcomes(slow_fallback_enabled, slow_llm,
                                   confidence_threshold, fastOut) :
          LET r == classify_user_intent(slow_fallback_enabled, slow_llm,
                                        confidence_threshold, chain_input,
                                        fastOut, slowOut)
          IN  /\ chain_calls' = r.calls
              /\ chain_result' = r.result
              /\ chain_pc' = IF r.raised THEN "raised" ELSE "returned"
    /\ UNCHANGED <<cfgVars, chain_input, threadVars, turnVars, plannerVars, callVars, appVars>>

\* ------------------------------------------------------------------------
\* graph/process/schemas.py : ProcessPlan, and what a planner call produces
\* ------------------------------------------------------------------------
NoTimeRange == [set |-> FALSE, start_date |-> "None", end_date |-> "None"]

TimeRanges ==
    {NoTimeRange,
     [set |-> TRUE, start_date |-> "2024-05-01", end_date |-> "None"],
     [set |-> TRUE, start_date |-> "2024-05-01", end_date |-> "2024-05-01"]}

ProcessPlans ==
    [needs_clarification : BOOLEAN,
     clarification_question : {"None", "", "Which time range do you mean?"},
     selected_sources : {{}, {"KNOWLEDGE_BASE"}, {"USER_METRICS"}},
     metrics : {<<>>, <<"steps_daily">>},
     time_range : TimeRanges]

\* ProcessPlan() with its field defaults.
ProcessPlan0 ==
    [needs_clarification |-> FALSE, clarification_question |-> "None",
     selected_sources |-> {}, metrics |-> <<>>, time_range |-> NoTimeRange]

\* planner.invoke(...) returns a ProcessPlan or raises OutputParserException.
PlanParseFailure == [ok |-> FALSE, plan |-> ProcessPlan0]

PlannerOutcomes == {[ok |-> TRUE, plan |-> p] : p \in ProcessPlans} \cup {PlanParseFailure}

\* Python truth value of an Optional[str].
Truthy(text) == text \notin {"None", ""}

\* ------------------------------------------------------------------------
\* graph/process/nodes/planner.py
\* ------------------------------------------------------------------------
If(cond, violation) == IF cond THEN <<violation>> ELSE <<>>

_validate_plan_NoTimeRangeCheck(plan) ==
    LET has_metric == plan.metrics # <<>>
    IN  If(plan.needs_clarification /\ ~Truthy(plan.clarification_question),
           "needs_clarification=true but clarification_question is missing")
        \o If(plan.selected_sources = {}, "selected_sources is empty")
        \o If(~plan.needs_clarification /\ ~has_metric,
              "metrics is empty but needs_clarification=false")

_validate_plan(plan) ==
    LET has_metric == plan.metrics # <<>>
        has_time   == /\ plan.time_range.set
                      /\ plan.time_range.start_date # "None"
                      /\ plan.time_range.end_date # "None"
    IN  If(plan.needs_clarification /\ ~Truthy(plan.clarification_question),
           "needs_clarification=true but clarification_question is missing")
        \o If(plan.selected_sources = {}, "selected_sources is empty")
        \o If(~plan.needs_clarification /\ ~has_metric,
              "metrics is empty but needs_clarification=false")
        \o If(~plan.needs_clarification
              /\ "USER_METRICS" \in plan.selected_sources /\ ~has_time,
              "time_range is missing or incomplete for USER_METRICS execution")

\* while attempts < max_attempts
LoopGuard_OffByOne(a, m) == a <= m

LoopGuard(a, m) == a < m

\* The delta returned when a plan is accepted (lines 155-159).
AcceptedDelta(plan, a) ==
    [process_plan |-> plan, needs_clarification |-> plan.needs_clarification,
     planner_attempts |-> a + 1]

\* The delta returned after the forced-repair call (lines 186-190).
FinalDelta_TrustsPlan(final_plan, m) ==
    [process_plan |-> final_plan,
     needs_clarification |-> final_plan.needs_clarification,
     planner_attempts |-> m]

FinalDelta(final_plan, m) ==
    [process_plan |-> final_plan, needs_clarification |-> TRUE,
     planner_attempts |-> m]

\* One pass through the body of the retry loop: the call, the validation,
\* and either the return of an accepted plan or the bookkeeping of a
\* rejected one or of a parse failure.
PlannerAttempt ==
    /\ planner_pc = "running"
    /\ LoopGuard(attempts, max_attempts)
    /\ \E out \in PlannerOutcomes :
          LET framing    == IF last_violations # <<>> THEN "repair" ELSE "base"
              violations == _validate_plan(out.plan)
          IN  /\ planner_calls' = Append(planner_calls,
                                         [phase |-> "loop", framing |-> framing])
              /\ IF ~out.ok
                 THEN /\ last_plan' = <<>>
                      /\ last_violations' =
                            <<"structured output parse failure, return a valid ProcessPlan">>
                      /\ attempts' = attempts + 1
                      /\ UNCHANGED <<planner_pc, planner_delta>>
                 ELSE IF violations = <<>>
                 THEN /\ planner_delta' = <<AcceptedDelta(out.plan, attempts)>>
                      /\ planner_pc' = "accepted"
                      /\ UNCHANGED <<last_plan, last_violations, attempts>>
                 ELSE /\ last_plan' = <<out.plan>>
                      /\ last_violations' = violations
                      /\ attempts' = attempts + 1
                      /\ UNCHANGED <<planner_pc, planner_delta>>
    /\ UNCHANGED <<max_attempts, vars, chainVars, callVars, appVars>>

\* The final fallback after the loop: one more call under repair framing,
\* outside any try block, whose plan is returned as it comes.
PlannerForcedRepair ==
    /\ planner_pc = "running"
    /\ ~LoopGuard(attempts, max_attempts)
    /\ \E out \in PlannerOutcomes :
          /\ planner_calls' = Append(planner_calls,
                                     [phase |-> "forced", framing |-> "repair"])
          /\ IF ~out.ok
             THEN /\ planner_pc' = "raised"
                  /\ UNCHANGED planner_delta
             ELSE /\ planner_pc' = "forced"
                  /\ planner_delta' = <<FinalDelta(out.plan, max_attempts)>>
    /\ UNCHANGED <<max_attempts, attempts, last_plan, last_violations, vars, chainVars,
                   callVars, appVars>>

\* ------------------------------------------------------------------------
\* graph/process/process_graph.py
\* ------------------------------------------------------------------------
\* plan_router(state): reads the plan of the state, not its
\* needs_clarification key.
plan_router(state) ==
    IF state.process_plan.needs_clarification THEN "clarification" ELSE "execute"

\* The conditional edge out of PLANNER: the planner's delta is merged into
\* the state and plan_router picks END or EXECUTION_AGENT.
PlanRouter ==
    /\ planner_pc \in {"accepted", "forced"}
    /\ planner_pc' = IF plan_router(planner_delta[1]) = "clarification"
                     THEN "END" ELSE "EXECUTION_AGENT"
    /\ UNCHANGED <<max_attempts, attempts, last_plan, last_violations, planner_calls,
                   planner_delta, vars, chainVars, callVars, appVars>>

\* ------------------------------------------------------------------------
\* Construction of one IntentMetadata, on its own
\* ------------------------------------------------------------------------
SeqsUpTo(S, n) == UNION {[1..k -> S] : k \in 0..n}

\* Keyword arguments handed to IntentMetadata(...); confidence 21 stands for
\* a value above 1.0.
IntentMetadataArgs ==
    [intent : IntentLabel,
     confidence : {0, 11, 12, 20, 21},
     suggested_sources : SeqsUpTo(DataSource, MaxSources),
     response_type : ResponseType,
     needs_clarification : BOOLEAN]

\* Field validation, which runs before the mode="after" validator.
FieldsValid(args) ==
    /\ args.intent \in IntentLabel
    /\ args.confidence >= 0 /\ args.confidence <= 20
    /\ SeqToSet(args.suggested_sources) \subseteq DataSource
    /\ args.response_type \in ResponseType

\* IntentMetadata(**call_args)
ConstructIntentMetadata ==
    /\ call_fn = "IntentMetadata"
    /\ call_pc = "ready"
    /\ \/ /\ FieldsValid(call_args)
          /\ call_ret' = enforce_policy(call_args.intent, call_args.confidence,
                                       call_args.suggested_sources,
                                       call_args.response_type,
                                       call_args.needs_clarification,
                                       "general", {})
          /\ call_pc' = "returned"
       \/ /\ ~FieldsValid(call_args)
          /\ call_ret' = NoMeta
          /\ call_pc' = "raised"
    /\ UNCHANGED <<vars, chainVars, plannerVars, appVars, call_fn, call_args>>

\* ------------------------------------------------------------------------
\* ProcessPlan.confidence (graph/process/schemas.py), on its own
\* Plan confidences are counted in ten-thousandths: 1.0 = 10000.
\* ------------------------------------------------------------------------
PLAN_CONF_ONE == 10000

PLAN_CONF_DEFAULT == 7000

\* Values handed in for confidence: None, a value float() rejects, or a
\* number (a numeric string is parsed by float() and counts as its number):
\* the quarters from -0.5 to 1.5 and the whole numbers from 2 to MaxPercent.
ConfidenceInputs ==
    {[kind |-> "none", value |-> 0], [kind |-> "unparsable", value |-> 0]}
    \cup {[kind |-> "number", value |-> q * 2500] : q \in -2..6}
    \cup {[kind |-> "number", value |-> n * PLAN_CONF_ONE] : n \in 2..MaxPercent}

_normalize_confidence_NoPercent(v) ==
    IF v.kind = "none" THEN PLAN_CONF_DEFAULT
    ELSE IF v.kind = "unparsable" THEN PLAN_CONF_DEFAULT
    ELSE LET fv == v.value
         IN  IF fv < 0 THEN 0
             ELSE IF fv > PLAN_CONF_ONE THEN PLAN_CONF_ONE
             ELSE fv

_normalize_confidence(v) ==
    IF v.kind = "none" THEN PLAN_CONF_DEFAULT
    ELSE IF v.kind = "unparsable" THEN PLAN_CONF_DEFAULT
    ELSE LET fv == v.value
         IN  IF fv > PLAN_CONF_ONE /\ fv <= 100 * PLAN_CONF_ONE THEN fv \div 100
             ELSE IF fv < 0 THEN 0
             ELSE IF fv > PLAN_CONF_ONE THEN PLAN_CONF_ONE
             ELSE fv

\* ProcessPlan(confidence=call_args) : the mode="before" validator, whose
\* value becomes the stored confidence.
NormalizeConfidence ==
    /\ call_fn = "_normalize_confidence"
    /\ call_pc = "ready"
    /\ call_ret' = _normalize_confidence(call_args)
    /\ call_pc' = "returned"
    /\ UNCHANGED <<vars, chainVars, plannerVars, appVars, call_fn, call_args>>

\* ------------------------------------------------------------------------
\* One call of intent_node (graph/nodes/intent.py), on its own
\* ------------------------------------------------------------------------
MetricNames == {"steps", "sleep_minutes"}

\* The input states: a history ending with the user's message, and the
\* ConversationState the thread holds.
IntentNodeStates ==
    [messages : {<<>>,
                 <<HumanMessage("how many steps")>>,
                 <<HumanMessage("how many steps"), AIMessage("answer"),
                   HumanMessage("and my sleep")>>},
     conversation_state :
        [current_topic : {"None", "sleep", "activity"},
         mentioned_metrics : SUBSET MetricNames,
         turn_count : 0..MaxTurnCount,
         prior_intent : {"None", "GREETING"},
         user_explicitly_asked : {"None"}]]

\* What the classifier chain returns to the node.
IntentNodeResults ==
    {enforce_policy(i, 18, <<>>, "DATA_LOOKUP", FALSE, t, m) :
        i \in {"METRIC_RETRIEVAL", "COACHING_REQUEST"},
        t \in {"None", "", "general", "sleep", "activity"},
        m \in SUBSET {"steps", "hr"}}

\* current_conv_state.model_copy(deep=True) : the copy and whether its
\* mentioned_metrics is the very set object of the original.
model_copy_Shallow(conv) == [value |-> conv, shares_mentioned_metrics |-> TRUE]

model_copy(conv) == [value |-> conv, shares_mentioned_metrics |-> FALSE]

\* intent_node(call_args) with a classification that returned: the delta,
\* and what the ConversationState object of the input state holds afterwards
\* (mentioned_metrics.update works in place on the copy's set).
IntentNodeCall ==
    /\ call_fn = "intent_node"
    /\ call_pc = "ready"
    /\ \/ /\ call_args.messages = <<>>
          /\ call_ret' = [keys |-> {},
                          intent_metadata |-> NoMeta,
                          conversation_state |-> ConversationState0,
                          input_conversation_state |-> call_args.conversation_state]
       \/ /\ call_args.messages # <<>>
          /\ \E intent_result \in IntentNodeResults :
                LET msgs    == call_args.messages
                    copy    == model_copy(call_args.conversation_state)
                    updated == updated_conv_state(copy.value, intent_result,
                                                  msgs[Len(msgs)].content)
                IN  call_ret' =
                      [keys |-> {"intent_metadata", "conversation_state"},
                       intent_metadata |-> intent_result,
                       conversation_state |-> updated,
                       input_conversation_state |->
                          IF copy.shares_mentioned_metrics
                          THEN [call_args.conversation_state EXCEPT
                                  !.mentioned_metrics = updated.mentioned_metrics]
                          ELSE call_args.conversation_state]
    /\ call_pc' = "returned"
    /\ UNCHANGED <<vars, chainVars, plannerVars, appVars, call_fn, call_args>>

\* ------------------------------------------------------------------------
\* graph/process/process.py : reduction of the agent's output to an
\* ExecutionResponse (process_node, lines 131-192), on its own
\* ------------------------------------------------------------------------
NoResponse ==
    [answer |-> "None", confidence |-> 0, needs_clarification |-> FALSE,
     clarification_question |-> "None"]

\* ExecutionResponse objects the agent can produce.
ExecutionResponses ==
    {[answer |-> "You walked 8000 steps.", confidence |-> 18,
      needs_clarification |-> FALSE, clarification_question |-> "None"],
     [answer |-> "I need a date.", confidence |-> 8,
      needs_clarification |-> TRUE, clarification_question |-> "Which day?"]}

\* Contents of an assistant message: empty, JSON with answer and confidence
\* that validates (fenced or raw) or does not, a JSON object without those
\* keys, a JSON scalar, or text without JSON.  data is the ExecutionResponse
\* the JSON validates to.
MessageContents ==
    {[kind |-> "empty", text |-> "", data |-> NoResponse]}
    \cup {[kind |-> k, text |-> "json", data |-> er] :
             k \in {"fenced_json", "raw_json"}, er \in ExecutionResponses}
    \cup {[kind |-> "json_invalid_fields", text |-> "json", data |-> NoResponse],
          [kind |-> "json_other_keys", text |-> "json", data |-> NoResponse],
          [kind |-> "json_scalar", text |-> "42", data |-> NoResponse],
          [kind |-> "non_json", text |-> "8000 steps", data |-> NoResponse]}

AgentMessages ==
    {[role |-> "ai", content |-> c] : c \in MessageContents}
    \cup {[role |-> "human",
           content |-> [kind |-> "non_json", text |-> "question", data |-> NoResponse]]}

\* raw_result of agent.invoke: a dict with messages and possibly a
\* structured_response (an ExecutionResponse, a mapping, None or any other
\* value), an ExecutionResponse itself, or something else.
StructuredResponses ==
    {[kind |-> k, data |-> NoResponse] :
        k \in {"absent", "none", "invalid_mapping", "other_value"}}
    \cup {[kind |-> k, data |-> er] :
             k \in {"ExecutionResponse", "valid_mapping"}, er \in ExecutionResponses}

RawResults ==
    [shape : {"dict"},
     structured_response : StructuredResponses,
     messages : SeqsUpTo(AgentMessages, MaxAgentMessages)]
    \cup [shape : {"ExecutionResponse"},
          structured_response : {[kind |-> "ExecutionResponse", data |-> er] :
                                    er \in ExecutionResponses},
          messages : {<<>>}]
    \cup [shape : {"other"},
          structured_response : {[kind |-> "absent", data |-> NoResponse]},
          messages : {<<>>}]

REPHRASE == "Could you rephrase your question?"

\* json.dumps of a string
json_dumps(text) == "\"" \o text \o "\""

\* extract_json_from_markdown(content): the parsed JSON, or ValueError.
extract_json_from_markdown(content) ==
    IF content.kind = "non_json" THEN [raised |-> TRUE, json |-> content]
    ELSE [raised |-> FALSE, json |-> content]

\* extract_execution_response_from_messages, looking at messages[1..n] from
\* the most recent one down.
RECURSIVE extract_from(_, _)
extract_from(msgs, n) ==
    IF n = 0 THEN [raised |-> TRUE, result |-> NoResponse, from |-> 0]
    ELSE LET msg == msgs[n]
             content == msg.content
             parsed == extract_json_from_markdown(content)
             on_exception ==
                 [raised |-> FALSE, from |-> n,
                  result |-> [answer |-> json_dumps(content.text), confidence |-> 0,
                              needs_clarification |-> TRUE,
                              clarification_question |-> REPHRASE]]
         IN  IF msg.role # "ai" THEN extract_from(msgs, n - 1)
             ELSE IF content.kind = "empty" THEN extract_from(msgs, n - 1)
             ELSE IF parsed.raised THEN on_exception
             ELSE IF content.kind = "json_scalar" THEN on_exception
             ELSE IF content.kind = "json_other_keys" THEN extract_from(msgs, n - 1)
             ELSE IF content.kind = "json_invalid_fields" THEN on_exception
             ELSE [raised |-> FALSE, from |-> n, result |-> content.data]

extract_execution_response_from_messages(msgs) == extract_from(msgs, Len(msgs))

\* The object exec_result is bound to: None, an ExecutionResponse, or the
\* value found under structured_response that is neither; method names the
\* step that produced it.
NoExecResult == [kind |-> "None", data |-> NoResponse, method |-> "none"]

\* Method 1 (lines 137-147)
from_structured_response(raw) ==
    LET sr == raw.structured_response
    IN  IF raw.shape # "dict" \/ sr.kind = "absent" THEN NoExecResult
        ELSE IF sr.kind = "ExecutionResponse"
             THEN [kind |-> "ExecutionResponse", data |-> sr.data, method |-> "structured"]
        ELSE IF sr.kind = "valid_mapping"
             THEN [kind |-> "ExecutionResponse", data |-> sr.data, method |-> "structured"]
        ELSE IF sr.kind = "invalid_mapping" THEN NoExecResult
        ELSE IF sr.kind = "none" THEN NoExecResult
        ELSE [kind |-> "other", data |-> NoResponse, method |-> "structured"]

\* Method 2 (lines 150-151)
from_direct_return(raw, exec_result) ==
    IF exec_result.kind = "None" /\ raw.shape = "ExecutionResponse"
    THEN [kind |-> "ExecutionResponse", data |-> raw.structured_response.data,
          method |-> "direct"]
    ELSE exec_result

\* Method 3 (lines 154-159)
from_message_content(raw, exec_result) ==
    LET messages_list == IF raw.shape = "dict" THEN raw.messages ELSE <<>>
        r == extract_execution_response_from_messages(messages_list)
    IN  IF exec_result.kind = "None" /\ messages_list # <<>> /\ ~r.raised
        THEN [kind |-> "ExecutionResponse", data |-> r.result,
              method |-> IF r.result.clarification_question = REPHRASE
                            /\ r.result.confidence = 0
                         THEN "text_fallback" ELSE "text"]
        ELSE exec_result

\* Final fallback (lines 162-170)
final_fallback(exec_result) ==
    IF exec_result.kind = "None"
    THEN [kind |-> "ExecutionResponse", method |-> "fallback",
          data |-> [answer |-> "I processed your request but encountered an issue generating a structured response.",
                    confidence |-> 0, needs_clarification |-> TRUE,
                    clarification_question |-> REPHRASE]]
    ELSE exec_result

\* process_node from the return of agent.invoke (call_args) to its own
\* return: the four steps, then the read of exec_result.answer (line 173),
\* which raises AttributeError on an object without that attribute.
ReduceAgentOutput ==
    /\ call_fn = "process_node"
    /\ call_pc = "ready"
    /\ LET m1 == from_structured_response(call_args)
           m2 == from_direct_return(call_args, m1)
           m3 == from_message_content(call_args, m2)
           exec_result == final_fallback(m3)
       IN  \/ /\ exec_result.kind = "ExecutionResponse"
              /\ call_ret' = exec_result
              /\ call_pc' = "returned"
           \/ /\ exec_result.kind # "ExecutionResponse"
              /\ call_ret' = exec_result
              /\ call_pc' = "raised"
    /\ UNCHANGED <<vars, chainVars, plannerVars, appVars, call_fn, call_args>>

\* ------------------------------------------------------------------------
\* One call of request_clarification_node, on its own
\* ------------------------------------------------------------------------
CLARIFICATION_MAX_HISTORY_LIMIT == 10

LISTENING == "I'm listening. How can I help?"

Histories == SeqsUpTo({HumanMessage("question"), AIMessage("answer")}, MaxHistory)

\* The input states: the history, the clarification_question of the plan
\* under process_plan and the clarification_question written by execution
\* ("None" when there is none).
ClarificationStates ==
    [messages : Histories,
     process_plan : {[present |-> FALSE, clarification_question |-> "None"],
                     [present |-> TRUE, clarification_question |-> "None"],
                     [present |-> TRUE, clarification_question |-> "Which date range?"]},
     clarification_question : {"None", "Which day?"}]

\* What the clarification chain can answer; it is shown the plan and may
\* repeat its question.
GeneratedQuestions == {"What did you mean?", "Which date range?"}

\* request_clarification_node(call_args): the delta and the number of calls
\* of the clarification chain.
RequestClarification ==
    /\ call_fn = "request_clarification_node"
    /\ call_pc = "ready"
    /\ LET trimmed_messages ==
              trim_conversation_history(call_args.messages,
                                        CLARIFICATION_MAX_HISTORY_LIMIT)
       IN  \/ /\ trimmed_messages = <<>>
              /\ call_ret' = [response |-> LISTENING, chain_calls |-> 0]
           \/ /\ trimmed_messages # <<>>
              /\ \E response \in GeneratedQuestions :
                    call_ret' = [response |-> response, chain_calls |-> 1]
    /\ call_pc' = "returned"
    /\ UNCHANGED <<vars, chainVars, plannerVars, appVars, call_fn, call_args>>

\* ------------------------------------------------------------------------
\* One call of suggestor_node, on its own
\* ------------------------------------------------------------------------
SUGGESTOR_MAX_HISTORY_LIMIT == 20

\* The profiles of the input states: none, an empty mapping, and objects
\* and mappings with and without a suggestiveness from 0.0 to 0.5.
UserProfileInputs ==
    {NoProfile}
    \cup {[shape |-> sh, has_prefs |-> FALSE, set |-> FALSE, suggestiveness |-> 0] :
             sh \in {"object", "mapping"}}
    \cup {[shape |-> "mapping", has_prefs |-> TRUE, set |-> FALSE, suggestiveness |-> 0]}
    \cup {ProfileOf(sh, v) : sh \in {"object", "mapping"}, v \in 0..5}

SuggestorStates ==
    [needs_clarification : BOOLEAN,
     user_profile : UserProfileInputs,
     messages : Histories]

NoDelta ==
    [keys |-> {}, messages |-> <<>>, response |-> "None", chain_calls |-> 0,
     state_messages |-> <<>>]

\* A message with its id; id 0 stands for a message that has none yet.
WithId(m, id) == [role |-> m.role, content |-> m.content, id |-> id]

\* The messages of a thread as the state holds them: add_messages gave each
\* an id when it was merged in.
Stored(msgs) == [i \in 1..Len(msgs) |-> WithId(msgs[i], i)]

MaxId(msgs) ==
    IF msgs = <<>> THEN 0
    ELSE CHOOSE x \in {msgs[i].id : i \in 1..Len(msgs)} :
            \A i \in 1..Len(msgs) : msgs[i].id <= x

\* add_messages(left, right), the reducer of AssistantState.messages: a
\* message without id gets a fresh one; a message whose id is in left
\* replaces that message in place; any other message is appended.
RECURSIVE add_messages(_, _)
add_messages(left, right) ==
    IF right = <<>> THEN left
    ELSE LET m0  == Head(right)
             m   == IF m0.id = 0 THEN WithId(m0, MaxId(left \o right) + 1) ELSE m0
             at  == {i \in 1..Len(left) : left[i].id = m.id}
             new == IF at = {} THEN Append(left, m)
                    ELSE [left EXCEPT ![CHOOSE i \in at : TRUE] = m]
         IN  add_messages(new, Tail(right))

\* f"{last_ai_message.content}\n\n{suggestion_text}"
WithNudge(content, suggestion_text) == content \o "\n\n" \o suggestion_text

\* suggestor_node(call_args): the delta and the number of calls of the
\* suggestion chain.
SuggestorCall ==
    /\ call_fn = "suggestor_node"
    /\ call_pc = "ready"
    /\ LET msgs == Stored(call_args.messages)
           skip == suggestor_skips(call_args)
       IN  \/ /\ skip
              /\ call_ret' = NoDelta
           \/ /\ ~skip
              /\ \E suggestion \in {"Take a short walk.", "opt_out", "raise"} :
                    IF suggestion \in {"opt_out", "raise"}
                    THEN call_ret' = [NoDelta EXCEPT !.chain_calls = 1]
                    ELSE LET new_content ==
                                 WithNudge(msgs[Len(msgs)].content, suggestion)
                             updated_last == WithId(AIMessage(new_content), 0)
                             trimmed == trim_conversation_history(
                                            msgs, SUGGESTOR_MAX_HISTORY_LIMIT)
                             updated ==
                                 IF trimmed # <<>> /\ trimmed[Len(trimmed)].role = "ai"
                                 THEN [trimmed EXCEPT ![Len(trimmed)] = updated_last]
                                 ELSE Append(trimmed, updated_last)
                         IN  call_ret' =
                               [keys |-> {"messages", "response", "suggestion_included"},
                                messages |-> updated, response |-> new_content,
                                chain_calls |-> 1, state_messages |-> <<>>]
    /\ call_pc' = "returned"
    /\ UNCHANGED <<vars, chainVars, plannerVars, appVars, call_fn, call_args>>

\* The graph applies the node's delta to the state: the messages key goes
\* through add_messages.
MergeSuggestorDelta ==
    /\ call_fn = "suggestor_node"
    /\ call_pc = "returned"
    /\ call_ret' =
          [call_ret EXCEPT !.state_messages =
              IF "messages" \in call_ret.keys
              THEN add_messages(Stored(call_args.messages), call_ret.messages)
              ELSE Stored(call_args.messages)]
    /\ call_pc' = "merged"
    /\ UNCHANGED <<vars, chainVars, plannerVars, appVars, call_fn, call_args>>

\* ------------------------------------------------------------------------
\* Specifications
\* ------------------------------------------------------------------------
TurnIdle ==
    /\ messages = <<>>
    /\ conversation_state = ConversationState0
    /\ intent_metadata = NoMeta
    /\ needs_clarification = FALSE
    /\ suggestion_included = FALSE
    /\ node = "IDLE"
    /\ visited = <<>>
    /\ calls = <<>>
    /\ nudged = FALSE
    /\ turns = 0
    /\ last_completed =
          [messages |-> <<>>, turn_count |-> ConversationState0.turn_count]

ChainIdle ==
    /\ chain_pc = "idle"
    /\ chain_input = <<>>
    /\ chain_calls = <<>>
    /\ chain_result = NoMeta

PlannerIdle ==
    /\ max_attempts = 0
    /\ attempts = 0
    /\ planner_pc = "idle"
    /\ last_plan = <<>>
    /\ last_violations = <<>>
    /\ planner_calls = <<>>
    /\ planner_delta = <<>>

\* ------------------------------------------------------------------------
\* app/app.py : the chat loop of a session over the compiled graph
\* ------------------------------------------------------------------------
\* the sessions, each with its own thread id (init_session)
ThreadIds == {"A", "B"}

\* chat turns taken by all sessions together
MaxAppTurns == 3

Prompts == {"question"}

\* str(e) of the exceptions a node can raise
ExceptionTexts == {"Connection error."}

\* process_node's max_history_limit, the default
PROCESS_MAX_HISTORY_LIMIT == 20

GREETING_RESPONSE == "Hello! I'm your Fitbit Health Assistant."

ERROR_RESPONSE == "I apologize, but I ran into an issue processing your request."

ANSWER == "answer"

QUESTION == "Which metric do you mean?"

\* The state of a thread the checkpointer has nothing for.
Thread0 ==
    [messages |-> <<>>, conversation_state |-> ConversationState0,
     intent_metadata |-> NoMeta, needs_clarification |-> FALSE]

NoShown == [widget |-> "none", text |-> ""]

\* convert_ui_msgs_to_langchain(ui_messages): a new HumanMessage or AIMessage
\* for every entry, none with an id (id 0).
convert_ui_msgs_to_langchain(ui) ==
    [i \in 1..Len(ui) |->
        WithId(IF ui[i].role = "user" THEN HumanMessage(ui[i].content)
               ELSE AIMessage(ui[i].content), 0)]

\* What the intent chain returns in a run: a greeting, a metric question
\* classified with confidence 0.55 or 0.9, or an exception.
AppClassifierOutcomes ==
    { [ok |-> TRUE, md |-> enforce_policy("GREETING", 18, <<>>, "DATA_LOOKUP", FALSE, "general", {})],
      [ok |-> TRUE, md |-> enforce_policy("METRIC_RETRIEVAL", 11, <<>>, "DATA_LOOKUP", FALSE, "steps", {"steps"})],
      [ok |-> TRUE, md |-> enforce_policy("METRIC_RETRIEVAL", 18, <<>>, "DATA_LOOKUP", FALSE, "steps", {"steps"})],
      ParseFailure }

\* What the PROCESS node does in a run that reaches it.
ProcessOutcomes == {"answer", "needs_clarification", "raises"}

Event(name, response) == [node |-> name, response |-> response]

\* graph.stream(inputs, config) on a thread, the suggestor disabled: the
\* input messages are merged into the thread, INTENT writes its delta, the
\* routed node writes its own, and the checkpointer keeps the state after
\* each of them; an exception ends the run where it is raised.
stream(thread, inputs, classified, executed, exc) ==
    LET merged  == add_messages(thread.messages, inputs)
        s0      == [thread EXCEPT !.messages = merged]
        md      == classified.md
        s1      == [s0 EXCEPT
                      !.intent_metadata = md,
                      !.conversation_state =
                          updated_conv_state(thread.conversation_state, md,
                                             merged[Len(merged)].content)]
        trimmed == trim_conversation_history(merged, PROCESS_MAX_HISTORY_LIMIT)
        s2      == [s1 EXCEPT
                      !.messages = add_messages(merged,
                                      Append(trimmed, WithId(AIMessage(ANSWER), 0))),
                      !.needs_clarification = (executed = "needs_clarification")]
        route   == intent_router(md)
        intent  == Event("INTENT", "")
    IN  IF ~classified.ok
        THEN [state |-> s0, events |-> <<>>, raised |-> TRUE, exception |-> exc]
        ELSE IF route = "static_respond"
        THEN [state |-> s1, raised |-> FALSE, exception |-> "",
              events |-> <<intent, Event("STATIC_RESPOND", GREETING_RESPONSE)>>]
        ELSE IF route = "clarification"
        THEN [state |-> s1, raised |-> FALSE, exception |-> "",
              events |-> <<intent, Event("CLARIFICATION", QUESTION)>>]
        ELSE IF executed = "raises"
        THEN [state |-> s1, events |-> <<intent>>, raised |-> TRUE, exception |-> exc]
        ELSE IF executed = "needs_clarification"
        THEN [state |-> s2, raised |-> FALSE, exception |-> "",
              events |-> <<intent, Event("PROCESS", ANSWER),
                           Event("CLARIFICATION", QUESTION)>>]
        ELSE [state |-> s2, raised |-> FALSE, exception |-> "",
              events |-> <<intent, Event("PROCESS", ANSWER)>>]

\* The loop over the streamed events: the last non-empty response.
RECURSIVE final_response(_)
final_response(events) ==
    IF events = <<>> THEN ""
    ELSE IF events[Len(events)].response # "" THEN events[Len(events)].response
    ELSE final_response(SubSeq(events, 1, Len(events) - 1))

\* One pass of the chat loop for a prompt: the prompt joins the session's
\* history, the whole history is converted and streamed through the graph
\* on the session's thread, and the user is shown the final response, or
\* the text of the exception the run raised.
chat_turn(thread, ui, prompt, classified, executed, exc) ==
    LET asked == Append(ui, [role |-> "user", content |-> prompt])
        run   == stream(thread, convert_ui_msgs_to_langchain(asked),
                        classified, executed, exc)
        resp  == final_response(run.events)
    IN  IF run.raised
        THEN [state |-> run.state, ui |-> asked,
              shown |-> [widget |-> "error",
                         text |-> "Execution failed: " \o run.exception]]
        ELSE IF resp # ""
        THEN [state |-> run.state,
              ui |-> Append(asked, [role |-> "assistant", content |-> resp]),
              shown |-> [widget |-> "markdown", text |-> resp]]
        ELSE [state |-> run.state, ui |-> asked,
              shown |-> [widget |-> "error",
                         text |-> "The agent completed but returned no response."]]

\* MemorySaver: the state of a run is stored under the thread id of its
\* configuration.
checkpointer_put_IgnoresThreadId(saved, thread_id, state) ==
    [t \in ThreadIds |-> state]

checkpointer_put(saved, thread_id, state) ==
    [saved EXCEPT ![thread_id] = state]

ChatTurn(t) ==
    /\ app_turns < MaxAppTurns
    /\ \E prompt \in Prompts, classified \in AppClassifierOutcomes,
          executed \in ProcessOutcomes, exc \in ExceptionTexts :
          LET r == chat_turn(checkpoints[t], ui_messages[t], prompt,
                             classified, executed, exc)
          IN  /\ checkpoints' = checkpointer_put(checkpoints, t, r.state)
              /\ ui_messages' = [ui_messages EXCEPT ![t] = r.ui]
              /\ shown' = [shown EXCEPT ![t] = r.shown]
    /\ last_thread' = t
    /\ app_turns' = app_turns + 1
    /\ UNCHANGED <<vars, chainVars, plannerVars, callVars>>

AppIdle ==
    /\ checkpoints = [t \in ThreadIds |-> Thread0]
    /\ ui_messages = [t \in ThreadIds |-> <<>>]
    /\ shown = [t \in ThreadIds |-> NoShown]
    /\ last_thread = "none"
    /\ app_turns = 0

\* ------------------------------------------------------------------------
\* graph/process/tools : one call of a tool of the execution agent, on its own
\* ------------------------------------------------------------------------
ToolQueries == {"How many steps did I take yesterday?", "Is 8000 steps enough?",
                "How does sleep affect heart rate?"}

\* The last AIMessage of the SQL agent's result: none, blank, a JSON object
\* with a non-blank "answer", with a blank one or without one, JSON that is
\* not an object, or plain text.
SqlAgentContents ==
    { [kind |-> "no_ai_message",     text |-> "", answer |-> ""],
      [kind |-> "blank",             text |-> "", answer |-> ""],
      [kind |-> "json_answer",       text |-> "{\"answer\": \"8000 steps\"}", answer |-> "8000 steps"],
      [kind |-> "json_blank_answer", text |-> "{\"answer\": \"\"}", answer |-> ""],
      [kind |-> "json_no_answer",    text |-> "{\"rows\": 1}", answer |-> ""],
      [kind |-> "json_list",         text |-> "[8000]", answer |-> ""],
      [kind |-> "text",              text |-> "You took 8000 steps.", answer |-> ""] }

\* agent.invoke of the SQL agent: it raises, or returns a result.
SqlAgentOutcomes ==
    { [raises |-> TRUE, exception |-> e, content |-> c] :
        e \in {"database is locked", "Connection error."},
        c \in {[kind |-> "no_ai_message", text |-> "", answer |-> ""]} }
    \cup { [raises |-> FALSE, exception |-> "", content |-> c] : c \in SqlAgentContents }

\* rag_app.invoke of the retrieval graph: it raises, or returns its state
\* (documents: how many it holds).
RagOutcomes ==
    { [raises |-> TRUE, exception |-> e, no_data_available |-> FALSE,
       generation |-> "", documents |-> 0] :
        e \in {"index not found", "Connection error."} }
    \cup [raises : {FALSE}, exception : {""}, no_data_available : BOOLEAN,
          generation : {"", "Most adults need 7-9 hours of sleep."},
          documents : 0..2]

ToolCalls ==
    { [tool |-> "fetch_user_metrics_sql", query |-> q, outcome |-> o] :
        q \in ToolQueries, o \in SqlAgentOutcomes }
    \cup { [tool |-> "fetch_knowledge_base", query |-> q, outcome |-> o] :
             q \in ToolQueries, o \in RagOutcomes }

NoArtifact == [sources |-> 0, full_generation |-> "", raw_status |-> "none"]

NoToolReturn == [raised |-> FALSE, exception |-> "", content |-> "", artifact |-> NoArtifact]

\* fetch_user_metrics_sql(query): agent.invoke and the reading of its result
\* are inside try/except Exception, which returns the error as text.
fetch_user_metrics_sql(query, outcome) ==
    LET last_ai == outcome.content
        content ==
            IF outcome.raises
            THEN "Error executing SQL tool: " \o outcome.exception
            ELSE IF last_ai.kind \in {"no_ai_message", "blank"}
            THEN "I queried the database but could not retrieve a structured answer."
            ELSE IF last_ai.kind = "json_answer" THEN last_ai.answer
            ELSE last_ai.text
    IN  [raised |-> FALSE, exception |-> "", content |-> content, artifact |-> NoArtifact]

\* fetch_knowledge_base(question): rag_app.invoke is called outside any try;
\* the content and the artifact are built from the result it returns.
fetch_knowledge_base(question, outcome) ==
    IF outcome.raises
    THEN [raised |-> TRUE, exception |-> outcome.exception, content |-> "",
          artifact |-> NoArtifact]
    ELSE [raised |-> FALSE, exception |-> "",
          content |-> IF outcome.no_data_available
                      THEN "No relevant scientific data found in the knowledge base."
                      ELSE IF outcome.generation # "" THEN outcome.generation
                      ELSE "Data retrieved successfully.",
          artifact |-> [sources |-> outcome.documents,
                        full_generation |-> outcome.generation,
                        raw_status |-> IF outcome.no_data_available
                                       THEN "no_data" ELSE "success"]]

FetchUserMetricsSql ==
    /\ call_fn = "fetch_user_metrics_sql"
    /\ call_pc = "ready"
    /\ call_ret' = fetch_user_metrics_sql(call_args.query, call_args.outcome)
    /\ call_pc' = "returned"
    /\ UNCHANGED <<vars, chainVars, plannerVars, appVars, call_fn, call_args>>

FetchKnowledgeBase ==
    /\ call_fn = "fetch_knowledge_base"
    /\ call_pc = "ready"
    /\ call_ret' = fetch_knowledge_base(call_args.query, call_args.outcome)
    /\ call_pc' = "returned"
    /\ UNCHANGED <<vars, chainVars, plannerVars, appVars, call_fn, call_args>>

\* ------------------------------------------------------------------------
\* graph/memory.py : one call of trim_conversation_history, on its own
\* ------------------------------------------------------------------------
\* longest message list and largest bound of the calls
MaxTrimLen == 4

MessageRoles == {"system", "human", "ai"}

\* Every message list up to the bound; the content of a message is its
\* position in the list, so that no two messages are equal.
TrimInputs ==
    { [i \in 1..Len(roles) |-> [role |-> roles[i], content |-> i]] :
        roles \in UNION { [1..n -> MessageRoles] : n \in 0..MaxTrimLen } }

TrimConversationHistory ==
    /\ call_fn = "trim_conversation_history"
    /\ call_pc = "ready"
    /\ call_ret' = trim_conversation_history(call_args.messages, call_args.max_messages)
    /\ call_pc' = "returned"
    /\ UNCHANGED <<vars, chainVars, plannerVars, appVars, call_fn, call_args>>

CallIdle ==
    /\ call_fn = "none"
    /\ call_pc = "idle"
    /\ call_args = <<>>
    /\ call_ret = <<>>

\* The default configuration of the nodes, for the runs that use none of it.
CfgIdle ==
    /\ slow_llm = FALSE
    /\ slow_fallback_enabled = FALSE
    /\ confidence_threshold = CONFIDENCE_THRESHOLD
    /\ suggestor_enabled = FALSE

allVars == <<vars, chainVars, plannerVars, callVars, appVars>>

\* The thread of a graph compiled by build_graph under the default intent
\* node configuration, with or without a slow model: make_intent_node
\* enables the slow fallback exactly when a slow model is configured.
Init ==
    /\ slow_llm \in BOOLEAN
    /\ slow_fallback_enabled = slow_llm
    /\ confidence_threshold = CONFIDENCE_THRESHOLD
    /\ suggestor_enabled \in BOOLEAN
    /\ TurnIdle
    /\ ChainIdle
    /\ PlannerIdle
    /\ CallIdle
    /\ AppIdle

Next ==
    \/ StartTurn
    \/ IntentNodeNoMessages
    \/ IntentNodeClassified
    \/ IntentNodeRaises
    \/ ClarificationNode
    \/ StaticRespondNode
    \/ DataAvailabilityNode
    \/ ProcessNode
    \/ SuggestorNode

Spec == Init /\ [][Next]_allVars

\* A chain built by build_intent_chain with any of its parameters.
InitChain ==
    /\ slow_llm \in BOOLEAN
    /\ slow_fallback_enabled \in BOOLEAN
    /\ confidence_threshold \in ThresholdLevels
    /\ suggestor_enabled = FALSE
    /\ TurnIdle
    /\ chain_pc = "ready"
    /\ chain_input \in ChainInputs
    /\ chain_calls = <<>>
    /\ chain_result = NoMeta
    /\ PlannerIdle
    /\ CallIdle
    /\ AppIdle

NextChain == ChainClassify

SpecChain == InitChain /\ [][NextChain]_allVars

\* planner_node entered with any planner_attempts in the state and any
\* configured planner_max_attempts.
InitPlanner ==
    /\ slow_llm = FALSE
    /\ slow_fallback_enabled = FALSE
    /\ confidence_threshold = CONFIDENCE_THRESHOLD
    /\ suggestor_enabled = FALSE
    /\ TurnIdle
    /\ ChainIdle
    /\ max_attempts \in 0..MaxPlannerAttempts
    /\ attempts \in 0..MaxPlannerAttempts
    /\ planner_pc = "running"
    /\ last_plan = <<>>
    /\ last_violations = <<>>
    /\ planner_calls = <<>>
    /\ planner_delta = <<>>
    /\ CallIdle
    /\ AppIdle

NextPlanner ==
    \/ PlannerAttempt
    \/ PlannerForcedRepair
    \/ PlanRouter

SpecPlanner == InitPlanner /\ [][NextPlanner]_allVars

\* IntentMetadata constructed from any arguments.
InitIntentMetadata ==
    /\ CfgIdle
    /\ TurnIdle
    /\ ChainIdle
    /\ PlannerIdle
    /\ call_fn = "IntentMetadata"
    /\ call_pc = "ready"
    /\ call_args \in IntentMetadataArgs
    /\ call_ret = NoMeta
    /\ AppIdle

NextIntentMetadata == ConstructIntentMetadata

SpecIntentMetadata == InitIntentMetadata /\ [][NextIntentMetadata]_allVars

\* ProcessPlan constructed with any confidence.
InitNormalize ==
    /\ CfgIdle
    /\ TurnIdle
    /\ ChainIdle
    /\ PlannerIdle
    /\ call_fn = "_normalize_confidence"
    /\ call_pc = "ready"
    /\ call_args \in ConfidenceInputs
    /\ call_ret = 0
    /\ AppIdle

NextNormalize == NormalizeConfidence

SpecNormalize == InitNormalize /\ [][NextNormalize]_allVars

\* intent_node called on any input state.
InitIntentNode ==
    /\ CfgIdle
    /\ TurnIdle
    /\ ChainIdle
    /\ PlannerIdle
    /\ call_fn = "intent_node"
    /\ call_pc = "ready"
    /\ call_args \in IntentNodeStates
    /\ call_ret = <<>>
    /\ AppIdle

NextIntentNode == IntentNodeCall

SpecIntentNode == InitIntentNode /\ [][NextIntentNode]_allVars

\* process_node handed any output by the execution agent.
InitReduce ==
    /\ CfgIdle
    /\ TurnIdle
    /\ ChainIdle
    /\ PlannerIdle
    /\ call_fn = "process_node"
    /\ call_pc = "ready"
    /\ call_args \in RawResults
    /\ call_ret = NoExecResult
    /\ AppIdle

NextReduce == ReduceAgentOutput

SpecReduce == InitReduce /\ [][NextReduce]_allVars

\* request_clarification_node called on any input state.
InitClarification ==
    /\ CfgIdle
    /\ TurnIdle
    /\ ChainIdle
    /\ PlannerIdle
    /\ call_fn = "request_clarification_node"
    /\ call_pc = "ready"
    /\ call_args \in ClarificationStates
    /\ call_ret = [response |-> "None", chain_calls |-> 0]
    /\ AppIdle

NextClarification == RequestClarification

SpecClarification == InitClarification /\ [][NextClarification]_allVars

\* suggestor_node (enabled, min_suggestiveness 0.3) called on any input state.
InitSuggestor ==
    /\ CfgIdle
    /\ TurnIdle
    /\ ChainIdle
    /\ PlannerIdle
    /\ call_fn = "suggestor_node"
    /\ call_pc = "ready"
    /\ call_args \in SuggestorStates
    /\ call_ret = NoDelta
    /\ AppIdle

NextSuggestor ==
    \/ SuggestorCall
    \/ MergeSuggestorDelta

SpecSuggestor == InitSuggestor /\ [][NextSuggestor]_allVars

\* Two chat sessions of the app, each on its own thread of one checkpointer.
InitApp ==
    /\ CfgIdle
    /\ TurnIdle
    /\ ChainIdle
    /\ PlannerIdle
    /\ CallIdle
    /\ AppIdle

NextApp == \E t \in ThreadIds : ChatTurn(t)

SpecApp == InitApp /\ [][NextApp]_allVars

\* A tool of the execution agent called on any query, its collaborator
\* returning or raising.
InitTools ==
    /\ CfgIdle
    /\ TurnIdle
    /\ ChainIdle
    /\ PlannerIdle
    /\ AppIdle
    /\ \E c \in ToolCalls :
          /\ call_fn = c.tool
          /\ call_args = [query |-> c.query, outcome |-> c.outcome]
    /\ call_pc = "ready"
    /\ call_ret = NoToolReturn

NextTools ==
    \/ FetchUserMetricsSql
    \/ FetchKnowledgeBase

SpecTools == InitTools /\ [][NextTools]_allVars

\* trim_conversation_history called on any message list with any bound >= 1.
InitTrim ==
    /\ CfgIdle
    /\ TurnIdle
    /\ ChainIdle
    /\ PlannerIdle
    /\ AppIdle
    /\ call_fn = "trim_conversation_history"
    /\ call_pc = "ready"
    /\ call_args \in [messages : TrimInputs, max_messages : 1..MaxTrimLen]
    /\ call_ret = <<>>

NextTrim == TrimConversationHistory

SpecTrim == InitTrim /\ [][NextTrim]_allVars

\* ------------------------------------------------------------------------
\* Properties of the turn router (Spec)
\* ------------------------------------------------------------------------
\* The node the routing rule after INTENT asks for, case by case.
RuleAfterIntent(md, n) ==
    /\ md = NoMeta => n = "CLARIFICATION"
    /\ (md # NoMeta /\ (md.needs_clarification \/ md.confidence < ROUTER_MIN_CONFIDENCE))
          => n = "CLARIFICATION"
    /\ (md # NoMeta /\ ~md.needs_clarification /\ md.confidence >= ROUTER_MIN_CONFIDENCE)
          => /\ md.intent \in {"GREETING", "OUT_OF_SCOPE"} => n = "STATIC_RESPOND"
             /\ md.intent = "DATA_AVAILABILITY" => n = "DATA_AVAILABILITY"
             /\ md.intent \notin {"GREETING", "OUT_OF_SCOPE", "DATA_AVAILABILITY"}
                   => n = "PROCESS"

C2_AfterProcessRouting ==
    [][ /\ (node = "PROCESS" /\ node' \notin {"PROCESS", "ABORTED"})
              => node' = IF needs_clarification' THEN "CLARIFICATION"
                         ELSE IF suggestor_enabled THEN "SUGGESTOR" ELSE "END"
        /\ (node # "SUGGESTOR" /\ node' = "SUGGESTOR")
              => (node = "PROCESS" /\ suggestor_enabled /\ ~needs_clarification')
        /\ (~nudged /\ nudged')
              => (node = "SUGGESTOR" /\ suggestor_enabled /\ ~needs_clarification)
      ]_allVars

\* PROCESS signalled needs_clarification with the suggestion stage enabled
\* and the turn went on to CLARIFICATION.
C2_Witness ==
    /\ node = "CLARIFICATION"
    /\ visited = <<"INTENT", "PROCESS", "CLARIFICATION">>
    /\ needs_clarification
    /\ suggestor_enabled

RECURSIVE LeadsToEnd(_, _, _)
\* END can be reached from n along at most k declared edges.
LeadsToEnd(n, enabled, k) ==
    /\ k > 0
    /\ \/ "END" \in EdgeTargets(n, enabled)
       \/ \E m \in EdgeTargets(n, enabled) \ {"END"} : LeadsToEnd(m, enabled, k - 1)

\* C3: every node a turn visits after INTENT has a transition that leads
\* to the terminal state, no node is visited twice in a turn, and a turn
\* that stops without an error stops in the terminal state.
C3_EveryBranchReachesEnd ==
    /\ \A i \in 2..Len(visited) :
          LeadsToEnd(visited[i], suggestor_enabled,
                     Cardinality(GraphNodes(suggestor_enabled)))
    /\ \A i, j \in 1..Len(visited) : visited[i] = visited[j] => i = j
    /\ (TurnOver /\ node \notin {"IDLE", "ABORTED"}) => node = "END"

\* C10: when a classifier call of the turn fails, the intent node leaves the
\* turn aborted: the failed call is the last call, no classifier is called
\* twice, and intent_metadata and the ConversationState are as before.
C10_ClassifierFailureFailsTurn ==
    [][ (node = "INTENT" /\ \E i \in 1..Len(calls') : ~calls'[i].ok)
           => /\ node' = "ABORTED"
              /\ ~calls'[Len(calls')].ok
              /\ \A i \in 1..(Len(calls') - 1) : calls'[i].ok
              /\ \A i, j \in 1..Len(calls') :
                    calls'[i].model = calls'[j].model => i = j
              /\ intent_metadata' = intent_metadata
              /\ conversation_state' = conversation_state ]_allVars

\* The second turn of a thread was aborted by a failing slow call and the
\* ConversationState is still the one the first turn left.
C10_Witness ==
    /\ node = "ABORTED"
    /\ visited = <<"INTENT">>
    /\ Len(calls) = 2
    /\ ~calls[2].ok
    /\ turns = 2
    /\ conversation_state.turn_count = 1
    /\ intent_metadata # NoMeta

\* ------------------------------------------------------------------------
\* Properties of the classification chain (SpecChain)
\* ------------------------------------------------------------------------
CallsOf(m) == {i \in 1..Len(chain_calls) : chain_calls[i].model = m}

\* C8: a classification calls the fast classifier exactly once and first;
\* it calls the slow classifier, once and on the same input, exactly when
\* one is configured and enabled, the fast confidence is strictly below the
\* threshold and the fast intent is neither GREETING nor OUT_OF_SCOPE.
C8_OneShotEscalation ==
    chain_pc # "ready" =>
        /\ Len(chain_calls) \in {1, 2}
        /\ chain_calls[1].model = "fast"
        /\ chain_calls[1].input = chain_input
        /\ Cardinality(CallsOf("fast")) = 1
        /\ Cardinality(CallsOf("slow")) = Len(chain_calls) - 1
        /\ (Len(chain_calls) = 2) <=>
              /\ chain_calls[1].out.ok
              /\ slow_llm
              /\ slow_fallback_enabled
              /\ chain_calls[1].out.md.confidence < confidence_threshold
              /\ chain_calls[1].out.md.intent \notin {"GREETING", "OUT_OF_SCOPE"}
        /\ (Len(chain_calls) = 2) => chain_calls[2].input = chain_calls[1].input

\* The fast result sat one level below the threshold and the slow
\* classifier was called.
C8_Witness ==
    /\ chain_pc = "returned"
    /\ Len(chain_calls) = 2
    /\ chain_calls[1].out.md.confidence = 15
    /\ confidence_threshold = 18

PhaseCalls(ph) == {i \in 1..Len(planner_calls) : planner_calls[i].phase = ph}

PlannerDone == planner_pc \in {"accepted", "forced", "raised"}

\* C4: planner_node makes at most max_attempts calls in the retry loop and
\* at most one forced-repair call, so at most max_attempts + 1 calls, and
\* while it has not ended it has made at most max_attempts calls.
C4_PlannerCallBound ==
    /\ Cardinality(PhaseCalls("loop")) <= max_attempts
    /\ Cardinality(PhaseCalls("forced")) <= 1
    /\ Len(planner_calls) <= max_attempts + 1
    /\ planner_pc = "running" => Len(planner_calls) <= max_attempts

\* Two rejected attempts and the forced call: three calls with max_attempts 2.
C4_Witness ==
    /\ planner_pc = "forced"
    /\ max_attempts = 2
    /\ Len(planner_calls) = 3

\* The invariant of ProcessPlan, not asking for clarification.
FullyExecutable(plan) ==
    /\ ~plan.needs_clarification
    /\ plan.selected_sources # {}
    /\ plan.metrics # <<>>
    /\ "USER_METRICS" \in plan.selected_sources
          => /\ plan.time_range.set
             /\ plan.time_range.start_date # "None"
             /\ plan.time_range.end_date # "None"

AsksWithQuestion(plan) ==
    /\ plan.needs_clarification
    /\ plan.clarification_question \notin {"None", ""}

\* C5 as stated: every plan planner_node returns, the forced-repair plan
\* included, is fully executable or asks for clarification with a
\* non-empty question.
C5_ReturnedPlanWellFormed ==
    planner_delta # <<>> =>
        \/ FullyExecutable(planner_delta[1].process_plan)
        \/ AsksWithQuestion(planner_delta[1].process_plan)

\* C5 amended: every plan accepted inside the retry loop is fully
\* executable or asks for clarification with a non-empty question.
C5_AcceptedPlanWellFormed ==
    planner_pc = "accepted" =>
        \/ FullyExecutable(planner_delta[1].process_plan)
        \/ AsksWithQuestion(planner_delta[1].process_plan)

\* A plan for USER_METRICS with a complete time range was accepted at the
\* second attempt, under repair framing.
C5_Witness ==
    /\ planner_pc = "accepted"
    /\ Len(planner_calls) = 2
    /\ planner_calls[2].framing = "repair"
    /\ "USER_METRICS" \in planner_delta[1].process_plan.selected_sources
    /\ ~planner_delta[1].process_plan.needs_clarification

\* C6: when the loop ends without an accepted plan there is exactly one
\* forced-repair call, the last call, and the delta it returns has
\* needs_clarification true; when a plan is accepted the delta carries the
\* plan's own needs_clarification, no forced call was made and none follows.
C6_ForcedClarification ==
    /\ planner_pc \in {"forced", "raised"} =>
          /\ Cardinality(PhaseCalls("forced")) = 1
          /\ planner_calls[Len(planner_calls)].phase = "forced"
    /\ planner_pc = "forced" =>
          /\ planner_delta # <<>>
          /\ planner_delta[1].needs_clarification = TRUE
    /\ planner_pc = "accepted" =>
          /\ PhaseCalls("forced") = {}
          /\ planner_delta[1].needs_clarification
                = planner_delta[1].process_plan.needs_clarification
    /\ PlannerDone => ~ENABLED (PlannerAttempt \/ PlannerForcedRepair)
    /\ (planner_pc = "running" /\ attempts >= max_attempts)
          => PhaseCalls("forced") = {}

\* The forced call returned a plan with needs_clarification false and the
\* delta says true all the same.
C6_Witness ==
    /\ planner_pc = "forced"
    /\ ~planner_delta[1].process_plan.needs_clarification
    /\ planner_delta[1].needs_clarification

\* C7: planner_node never ends with an unhandled parse failure.
C7_NoUnhandledParseFailure == planner_pc # "raised"

\* ------------------------------------------------------------------------
\* Properties of IntentMetadata (SpecIntentMetadata)
\* ------------------------------------------------------------------------
Constructed == call_fn = "IntentMetadata" /\ call_pc = "returned"

\* C11: every constructed IntentMetadata with confidence < 0.6 has
\* needs_clarification = true, whatever needs_clarification, intent and
\* response_type were given to the constructor.
C11_LowConfidenceNeedsClarification ==
    (Constructed /\ call_ret.confidence < LOW_CONF_OVERRIDE)
        => call_ret.needs_clarification

\* Constructed with confidence 0.55, needs_clarification false and a
\* response type other than CLARIFICATION: only the override sets the flag.
C11_Witness ==
    /\ Constructed
    /\ call_args.confidence = 11
    /\ ~call_args.needs_clarification
    /\ call_args.response_type = "DATA_LOOKUP"
    /\ call_ret.needs_clarification

\* C12: every constructed IntentMetadata whose intent is GREETING or
\* OUT_OF_SCOPE has suggested_sources = [NONE], whatever sources were given.
C12_NonDataIntentSources ==
    (Constructed /\ call_ret.intent \in {"GREETING", "OUT_OF_SCOPE"})
        => call_ret.suggested_sources = <<"NONE">>

\* OUT_OF_SCOPE constructed with two data sources given.
C12_Witness ==
    /\ Constructed
    /\ call_ret.intent = "OUT_OF_SCOPE"
    /\ call_args.suggested_sources = <<"CALENDAR", "USER_METRICS">>
    /\ call_ret.suggested_sources = <<"NONE">>

IsOrderedSubsequence(seq) ==
    /\ SeqToSet(seq) \subseteq DataSource
    /\ \A a, b \in 1..Len(seq) : a < b =>
          \E x, y \in 1..Len(SOURCE_ORDER) :
             x < y /\ SOURCE_ORDER[x] = seq[a] /\ SOURCE_ORDER[y] = seq[b]

\* C13: for every intent label and every constructor input, the constructed
\* suggested_sources contains every member of INTENT_MIN_SOURCES of the
\* intent and is an ordered, duplicate-free list of members of the source
\* enum.
C13_MinimumSourcesPresent ==
    Constructed =>
        /\ INTENT_MIN_SOURCES[call_ret.intent] \subseteq SeqToSet(call_ret.suggested_sources)
        /\ IsOrderedSubsequence(call_ret.suggested_sources)

\* C14: (as stated) every IntentMetadata constructed with
\* needs_clarification = false given has the canonical response type of its
\* intent, whatever response_type was given.
C14_ResponseTypeForced ==
    (Constructed /\ ~call_args.needs_clarification)
        => call_ret.response_type =
              Get(INTENT_RESPONSE_TYPE, call_ret.intent, "DATA_LOOKUP")

\* C14 (amended): given needs_clarification = false, a response_type other
\* than CLARIFICATION is replaced by the canonical type of the intent
\* (DATA_LOOKUP for UNCLEAR, which has no entry), and a response_type of
\* CLARIFICATION is kept while needs_clarification becomes true; hence every
\* constructed object with needs_clarification = false carries the canonical
\* type.
C14_ResponseTypeForcedUnlessClarification ==
    Constructed =>
        /\ (~call_args.needs_clarification /\ call_args.response_type # "CLARIFICATION")
              => call_ret.response_type =
                    Get(INTENT_RESPONSE_TYPE, call_ret.intent, "DATA_LOOKUP")
        /\ (~call_args.needs_clarification /\ call_args.response_type = "CLARIFICATION")
              => /\ call_ret.response_type = "CLARIFICATION"
                 /\ call_ret.needs_clarification
        /\ ~call_ret.needs_clarification
              => call_ret.response_type =
                    Get(INTENT_RESPONSE_TYPE, call_ret.intent, "DATA_LOOKUP")

\* COACHING_REQUEST constructed with needs_clarification false and response
\* type DATA_LOOKUP comes out as ACTIONABLE_ADVICE.
C14_Witness ==
    /\ Constructed
    /\ call_ret.intent = "COACHING_REQUEST"
    /\ ~call_args.needs_clarification
    /\ call_args.response_type = "DATA_LOOKUP"
    /\ call_ret.response_type = "ACTIONABLE_ADVICE"
    /\ ~call_ret.needs_clarification

\* ------------------------------------------------------------------------
\* Properties of ProcessPlan.confidence (SpecNormalize)
\* ------------------------------------------------------------------------
Normalized == call_fn = "_normalize_confidence" /\ call_pc = "returned"

IsNumber(v) == v.kind = "number"

\* The cases on which the statement and the code agree.
NormalizationCommonCases ==
    /\ (IsNumber(call_args) /\ 0 <= call_args.value /\ call_args.value <= PLAN_CONF_ONE)
          => call_ret = call_args.value
    /\ (IsNumber(call_args) /\ PLAN_CONF_ONE < call_args.value
                            /\ call_args.value <= 100 * PLAN_CONF_ONE)
          => 100 * call_ret = call_args.value
    /\ (IsNumber(call_args) /\ call_args.value < 0) => call_ret = 0
    /\ ~IsNumber(call_args) => call_ret = PLAN_CONF_DEFAULT
    /\ 0 <= call_ret /\ call_ret <= PLAN_CONF_ONE

\* C15: (as stated) 0 <= v <= 1 gives v, 1 < v <= 100 gives v/100, v < 0
\* gives 0, v > 100 or an unparsable value gives the default 0.7; the stored
\* confidence is within [0, 1].
C15_NormalizationAsStated ==
    Normalized =>
        /\ NormalizationCommonCases
        /\ (IsNumber(call_args) /\ call_args.value > 100 * PLAN_CONF_ONE)
              => call_ret = PLAN_CONF_DEFAULT

\* C15 (amended): as above, except that a number above 100 is clamped to
\* 1.0; the default 0.7 is given for None and for unparsable values only.
C15_NormalizationClampsAbove100 ==
    Normalized =>
        /\ NormalizationCommonCases
        /\ (IsNumber(call_args) /\ call_args.value > 100 * PLAN_CONF_ONE)
              => call_ret = PLAN_CONF_ONE

\* A confidence of 101 has been stored as 1.0.
C15_Witness ==
    /\ Normalized
    /\ call_args = [kind |-> "number", value |-> 101 * PLAN_CONF_ONE]
    /\ call_ret = PLAN_CONF_ONE

\* ------------------------------------------------------------------------
\* Properties of intent_node (SpecIntentNode) and of the thread (Spec)
\* ------------------------------------------------------------------------
Classified ==
    /\ call_fn = "intent_node"
    /\ call_pc = "returned"
    /\ call_ret.keys # {}

\* C16: after a successful classification the ConversationState of the
\* delta has turn_count = previous + 1, prior_intent = the classified intent,
\* user_explicitly_asked = the content of the last message, current_topic =
\* the returned topic when it is non-empty and not 'general' and else the
\* previous topic, mentioned_metrics = previous united with the returned
\* metrics; the ConversationState object of the input state is unchanged.
C16_ConversationStateDelta ==
    Classified =>
        LET prev == call_args.conversation_state
            new  == call_ret.conversation_state
            md   == call_ret.intent_metadata
            last == call_args.messages[Len(call_args.messages)]
        IN  /\ new.turn_count = prev.turn_count + 1
            /\ new.prior_intent = md.intent
            /\ new.user_explicitly_asked = last.content
            /\ md.current_topic \in {"None", "", "general"}
                  => new.current_topic = prev.current_topic
            /\ md.current_topic \notin {"None", "", "general"}
                  => new.current_topic = md.current_topic
            /\ new.mentioned_metrics = prev.mentioned_metrics \cup md.mentioned_metrics
            /\ call_ret.input_conversation_state = prev

\* A second turn on topic 'sleep' classified with topic 'general' and a new
\* metric: the topic stays, the metric is added, the input object keeps its
\* own set.
C16_Witness ==
    /\ Classified
    /\ call_args.conversation_state.current_topic = "sleep"
    /\ call_args.conversation_state.mentioned_metrics = {"steps"}
    /\ call_args.conversation_state.turn_count = 1
    /\ call_ret.intent_metadata.current_topic = "general"
    /\ call_ret.intent_metadata.mentioned_metrics = {"hr"}
    /\ call_ret.conversation_state.current_topic = "sleep"
    /\ call_ret.conversation_state.mentioned_metrics = {"steps", "hr"}
    /\ call_ret.conversation_state.turn_count = 2
    /\ call_ret.input_conversation_state.mentioned_metrics = {"steps"}

\* INTENT has handed over after a classification that returned.
ClassifiedStep == node = "INTENT" /\ node' # "ABORTED" /\ calls' # <<>>

\* C17: on one thread turn_count never decreases and mentioned_metrics
\* never loses an element; every step other than a successful
\* classification leaves turn_count as the thread holds it and a successful
\* classification adds one, so that after n successfully classified turns on
\* a fresh thread turn_count is n (and never more than the turns run).
C17_ConversationStateMonotonic ==
    [][ /\ conversation_state'.turn_count >= conversation_state.turn_count
        /\ conversation_state.mentioned_metrics
              \subseteq conversation_state'.mentioned_metrics
        /\ conversation_state'.turn_count =
              conversation_state.turn_count + (IF ClassifiedStep THEN 1 ELSE 0)
        /\ conversation_state'.turn_count <= turns' ]_allVars

\* The second turn of a thread has been classified: turn_count is 2 and the
\* metric mentioned in a turn is kept.
C17_Witness ==
    /\ turns = 2
    /\ TurnOver
    /\ conversation_state.turn_count = 2
    /\ conversation_state.mentioned_metrics = {"steps"}
    /\ conversation_state.current_topic = "sleep"

\* ------------------------------------------------------------------------
\* Properties of the extraction chain (SpecReduce)
\* ------------------------------------------------------------------------
\* C18: for every shape of agent output the extraction yields an
\* ExecutionResponse and does not raise to the caller; when no extraction
\* step succeeds the result is the fallback with needs_clarification = true,
\* confidence 0 and the generic rephrase request.
C18_ExtractionNeverRaises ==
    (call_fn = "process_node" /\ call_pc # "ready") =>
        /\ call_pc = "returned"
        /\ call_ret.kind = "ExecutionResponse"
        /\ call_ret.method \in {"fallback", "text_fallback"} =>
              /\ call_ret.data.needs_clarification
              /\ call_ret.data.confidence = 0
              /\ call_ret.data.clarification_question = REPHRASE

\* ------------------------------------------------------------------------
\* Properties of request_clarification_node (SpecClarification)
\* ------------------------------------------------------------------------
\* The clarification questions attached upstream.
AttachedQuestions ==
    {call_args.process_plan.clarification_question, call_args.clarification_question}
    \ {"None"}

\* C19: when the planner's plan or execution attached a clarification
\* question, the node's response is that question verbatim and the
\* clarification chain is not called, whatever the history.
C19_UpstreamQuestionVerbatim ==
    (call_fn = "request_clarification_node" /\ call_pc = "returned"
        /\ AttachedQuestions # {})
        => /\ call_ret.response \in AttachedQuestions
           /\ call_ret.chain_calls = 0

\* ------------------------------------------------------------------------
\* Properties of suggestor_node (SpecSuggestor)
\* ------------------------------------------------------------------------
\* The profile configures a suggestiveness below min_suggestiveness.
ConfiguredBelowThreshold ==
    /\ call_args.user_profile.has_prefs
    /\ call_args.user_profile.set
    /\ call_args.user_profile.suggestiveness < MIN_SUGGESTIVENESS

\* C20: the suggestion node returns {} (no delta, no nudge) whenever the
\* user's configured suggestiveness is below min_suggestiveness (0.3), for
\* every value in [0, 0.3), both profile shapes and every other input.
C20_BelowThresholdNoDelta ==
    (call_fn = "suggestor_node" /\ call_pc = "returned" /\ ConfiguredBelowThreshold)
        => call_ret.keys = {}

\* C21: when the suggestion node adds a nudge, the merged history has as
\* many messages as before the node ran, its last message is the original
\* answer, a blank line and the suggestion, and the original answer is no
\* longer a message of its own.
C21_NudgeReplacesAnswer ==
    (call_fn = "suggestor_node" /\ call_pc = "merged" /\ call_ret.keys # {}) =>
        LET before == Stored(call_args.messages)
            after  == call_ret.state_messages
            answer == before[Len(before)]
        IN  /\ Len(after) = Len(before)
            /\ after[Len(after)].content = call_ret.response
            /\ call_ret.response = WithNudge(answer.content, "Take a short walk.")
            /\ \A i \in 1..Len(after) : after[i].id # answer.id \/ after[i] # answer

\* ------------------------------------------------------------------------
\* Properties of the thread across turns (Spec)
\* ------------------------------------------------------------------------
\* C22: when a node raises and the turn is aborted, the thread's persisted
\* history and ConversationState are the ones the last completed turn left:
\* nothing the aborted turn wrote before the failure stays behind (no
\* message added, no ConversationState written since).
C22_AbortLeavesNoPartialDelta ==
    node = "ABORTED" =>
        /\ messages = last_completed.messages
        /\ conversation_state.turn_count = last_completed.turn_count

\* ------------------------------------------------------------------------
\* Properties of the chat loop (SpecApp)
\* ------------------------------------------------------------------------
UserFacingTexts == {ANSWER, GREETING_RESPONSE, QUESTION, ERROR_RESPONSE}

\* C23: whatever fails inside a turn, what the user is shown is an answer, a
\* clarifying question or the generic apology, never the text of the
\* exception that was raised.
C23_NoRawExceptionShown ==
    \A t \in ThreadIds :
        shown[t] # NoShown =>
            /\ shown[t].text \in UserFacingTexts
            /\ \A e \in ExceptionTexts : shown[t].text # "Execution failed: " \o e

\* What one session can reach in at most n turns when it is the only one.
RECURSIVE SoloStates(_)
SoloStates(n) ==
    IF n = 0 THEN {[state |-> Thread0, ui |-> <<>>]}
    ELSE LET before == SoloStates(n - 1)
         IN  before \cup
             { [state |-> r.state, ui |-> r.ui] :
                 r \in { chat_turn(s.state, s.ui, prompt, classified, executed, exc) :
                           s \in before, prompt \in Prompts,
                           classified \in AppClassifierOutcomes,
                           executed \in ProcessOutcomes, exc \in ExceptionTexts } }

SoloReachable == SoloStates(MaxAppTurns)

\* C25: threads are independent. A turn on one thread leaves the persisted
\* state of every other thread unchanged, and under every interleaving the
\* state and chat history of a thread are ones it reaches when it runs
\* alone: no outcome on a thread depends on what happened on another.
C25_ThreadsIndependent ==
    /\ [][\A t \in ThreadIds :
            t # last_thread' => /\ checkpoints'[t] = checkpoints[t]
                                /\ ui_messages'[t] = ui_messages[t]]_allVars
    /\ [](\A t \in ThreadIds :
            [state |-> checkpoints[t], ui |-> ui_messages[t]] \in SoloReachable)

\* Turns on both threads, the last one on A while B holds a classified turn
\* with an answer in its history.
C25_Witness ==
    /\ last_thread = "A"
    /\ checkpoints["A"].conversation_state.turn_count >= 1
    /\ checkpoints["B"].conversation_state.turn_count >= 1
    /\ Len(checkpoints["B"].messages) >= 2
    /\ checkpoints["A"] # checkpoints["B"]

Count(msgs, m) ==
    Cardinality({i \in 1..Len(msgs) :
                    msgs[i].role = m.role /\ msgs[i].content = m.content})

\* C29: the client resubmits the whole visible history on every turn, and the
\* persisted history of the thread still holds each message of that history
\* at most once.
C29_ResubmittedHistoryNotDuplicated ==
    \A t \in ThreadIds :
        LET submitted == convert_ui_msgs_to_langchain(ui_messages[t])
            persisted == checkpoints[t].messages
        IN  \A i \in 1..Len(submitted) :
                Count(persisted, submitted[i]) <= Count(submitted, submitted[i])

\* ------------------------------------------------------------------------
\* Properties of the tools (SpecTools)
\* ------------------------------------------------------------------------
\* C24: an exception thrown by the collaborator of the metrics-query tool or
\* of the knowledge-retrieval tool is caught in the tool and returned as a
\* text result; the call of the tool never raises.
C24_ToolExceptionsBecomeText ==
    (call_fn \in {"fetch_user_metrics_sql", "fetch_knowledge_base"}
     /\ call_pc = "returned" /\ call_args.outcome.raises) =>
        /\ ~call_ret.raised
        /\ call_ret.content # ""

\* ------------------------------------------------------------------------
\* Properties of the history trimmer (SpecTrim)
\* ------------------------------------------------------------------------
Trimmed == call_fn = "trim_conversation_history" /\ call_pc = "returned"

\* The output without the leading system message of the input.
TrimmedBody ==
    IF LeadingSystem(call_args.messages) /\ call_ret # <<>>
    THEN Tail(call_ret) ELSE call_ret

C27_ExecutionOnlyWithValidatedPlan ==
    planner_pc = "EXECUTION_AGENT" =>
        /\ ~planner_delta[1].needs_clarification
        /\ ~planner_delta[1].process_plan.needs_clarification
        /\ _validate_plan(planner_delta[1].process_plan) = <<>>

\* ------------------------------------------------------------------------
\* Properties of the extraction chain, step 3 (SpecReduce)
\* ------------------------------------------------------------------------
\* The position of the most recent non-empty assistant message, 0 if none.
FinalTextOutput(msgs) ==
    LET ais == {i \in 1..Len(msgs) : msgs[i].role = "ai" /\ msgs[i].content.kind # "empty"}
    IN  IF ais = {} THEN 0 ELSE CHOOSE i \in ais : \A j \in ais : j <= i

\* C28: when step 3 of the extraction chain produces the ExecutionResponse,
\* it is taken from the most recent non-empty assistant message, whatever
\* that message contains, and never from an older one.
C28_AnswerFromFinalTextOutput ==
    (call_fn = "process_node" /\ call_pc = "returned"
     /\ call_ret.method \in {"text", "text_fallback"}) =>
        LET r == extract_execution_response_from_messages(call_args.messages)
        IN  /\ call_ret.data = r.result
            /\ r.from = FinalTextOutput(call_args.messages)

\* ------------------------------------------------------------------------
\* Properties of IntentMetadata and the intent router (SpecIntentMetadata)
\* ------------------------------------------------------------------------
\* C30: every constructed IntentMetadata whose response_type is CLARIFICATION
\* has needs_clarification = true, whatever the constructor was given, and
\* the intent router sends it to CLARIFICATION.
C30_ClarificationTypeRoutedToClarification ==
    (Constructed /\ call_ret.response_type = "CLARIFICATION") =>
        /\ call_ret.needs_clarification
        /\ intent_router(call_ret) = "clarification"
        /\ IntentEdges[intent_router(call_ret)] = "CLARIFICATION"

\* A greeting constructed with full confidence, response_type CLARIFICATION
\* and needs_clarification false: only step 4 raises the flag.
C30_Witness ==
    /\ Constructed
    /\ call_args.intent = "GREETING"
    /\ call_args.confidence = 20
    /\ call_args.response_type = "CLARIFICATION"
    /\ ~call_args.needs_clarification
    /\ call_ret.response_type = "CLARIFICATION"
    /\ call_ret.needs_clarification

====
